---- MODULE Spec2Model ----
(***************************************************************************)
(* A model of the non-visual core of edb-debugger:                         *)
(*   - the SIGCHLD relay of plugins/DebuggerCore/unix/DebuggerCoreUNIX.cpp *)
(*   - the instruction stream navigator of src/widgets/QDisassemblyView.cpp*)
(*   - the architecture processors of src/arch/{x86,arm}-generic           *)
(* Each part has its own specification over the shared variables; the      *)
(* variables of the other parts stay at their initial values.              *)
(***************************************************************************)
EXTENDS Integers, Sequences, FiniteSets, TLC

VARIABLES
    \* ---- signal relay (DebuggerCoreUNIX.cpp) ----
    selfpipe,      \* number of unread bytes in the self-pipe
    old_action,    \* the struct sigaction saved by the constructor
    hpc,           \* position of the running sigchld_handler
    hargs,         \* (sig, info, p) the handler was entered with
    hlog,          \* what the current handler invocation did, in order
    wpc,           \* position of wait_for_sigchld, self-pipe build
    msecs,         \* argument of the current wait_for_sigchld call
    elapsed,       \* milliseconds since the wait was entered
    sel,           \* <<r>> once select_ex returned r
    rd,            \* <<r>> once native::read returned r
    ret,           \* <<b>> once the self-pipe build returned b
    spc,           \* position of wait_for_sigchld, sigtimedwait build
    pending,       \* a SIGCHLD is pending for sigtimedwait
    sig_r,         \* <<r>> once sigtimedwait returned r
    sret,          \* <<b>> once the sigtimedwait build returned b
    \* ---- instruction stream navigator (QDisassemblyView.cpp) ----
    mem,             \* the bytes of the region, by offset from its base
    region_base,     \* region_->base(), also address_offset_
    navpc,           \* position of following_instructions
    start_address,   \* the current_address following_instructions got
    current_address, \* its local current_address
    count,           \* its argument count
    i,               \* its loop counter
    comp,            \* inputs and results of a composed forward scan
    bf,              \* inputs and results of a backward-then-forward scan
    ldb,             \* <<r>>: a call of length_disasm_back and its stages
    walk,            \* <<r>>: a backward step taken with the analyzer
    upc,             \* position of updateDisassembly
    inst_buf,        \* the bytes updateDisassembly read
    max_offset,      \* its local max_offset
    offset,          \* its local offset
    line,            \* its local line
    lines_to_render, \* its argument
    \* ---- architecture processors (arch/*/ArchProcessor.cpp) ----
    arch_op,         \* the operation applied last
    arch_in,         \* its inputs
    arch_out,        \* its result
    \* ---- launcher, constructor, wrappers, catalog (DebuggerCoreUNIX.cpp) ----
    core_op,         \* the operation in progress
    core_pc,         \* its position
    core_frame,      \* its arguments and locals
    core_log,        \* the system calls it made, in order
    core_out,        \* <<r>> once it returned r
    sigchld_action,  \* the action the process has installed for SIGCHLD
    \* ---- x86 register view (arch/x86-generic/ArchProcessor.cpp) ----
    last_state_,     \* the snapshot retained by update_register_view
    compared,        \* <<c>> when the last call compared two snapshots
    hidden,          \* whether the register items are hidden
    view_calls       \* calls made so far

relayVars == <<selfpipe, old_action, hpc, hargs, hlog, wpc, msecs, elapsed,
               sel, rd, ret, spc, pending, sig_r, sret>>

navVars == <<mem, region_base, navpc, start_address, current_address, count,
             i, comp, bf, ldb, walk, upc, inst_buf, max_offset, offset, line,
             lines_to_render>>

archVars == <<arch_op, arch_in, arch_out>>

viewVars == <<last_state_, compared, hidden, view_calls>>

coreVars == <<core_op, core_pc, core_frame, core_log, core_out,
              sigchld_action>>

vars == <<relayVars, navVars, archVars, coreVars, viewVars>>

None == "none"

\* the handler arguments while no handler has been entered
NoArgs == [sig |-> None, info |-> None, p |-> None]

\* the process launcher, the constructor, the system-call wrappers and the
\* signal catalog before any request
CoreIdle ==
    /\ core_op = "none"
    /\ core_pc = "idle"
    /\ core_frame = <<>>
    /\ core_log = <<>>
    /\ core_out = <<>>
    /\ sigchld_action = [sa_flags |-> {}, handler |-> "NULL"]

\* State(): a snapshot without registers
EmptyState == [empty |-> TRUE, rax |-> 0, rip |-> 0]

\* the register view before any call
ViewIdle ==
    /\ last_state_ = EmptyState
    /\ compared = <<>>
    /\ hidden = FALSE
    /\ view_calls = 0

\* the navigator before any request
NavIdle ==
    /\ mem = <<>>
    /\ region_base = 0
    /\ navpc = "idle"
    /\ start_address = 0
    /\ current_address = 0
    /\ count = 0
    /\ i = 0
    /\ comp = <<>>
    /\ bf = <<>>
    /\ ldb = <<>>
    /\ walk = <<>>
    /\ upc = "idle"
    /\ inst_buf = <<>>
    /\ max_offset = 0
    /\ offset = 0
    /\ line = 0
    /\ lines_to_render = 0

\* the architecture processor before any request
ArchIdle ==
    /\ arch_op = "none"
    /\ arch_in = <<>>
    /\ arch_out = <<>>

\* the relay before construction has any effect on the other parts
RelayIdle ==
    /\ selfpipe = 0
    /\ old_action = [sa_flags |-> {}, handler |-> "NULL"]
    /\ hpc = "idle"
    /\ hargs = NoArgs
    /\ hlog = <<>>
    /\ wpc = "idle"
    /\ msecs = 0
    /\ elapsed = 0
    /\ sel = <<>>
    /\ rd = <<>>
    /\ ret = <<>>
    /\ spc = "idle"
    /\ pending = FALSE
    /\ sig_r = <<>>
    /\ sret = <<>>


(***************************************************************************)
(*                            SIGNAL RELAY                                 *)
(***************************************************************************)

\* bounds of the relay model
PipeCapacity == 2      \* bytes the non-blocking pipe holds before EAGAIN
TickMs       == 500    \* granularity of the clock
MaxElapsed   == 2000   \* the clock stops here
MsecsVals    == {0, 500, 1500}

Signals   == {"SIGCHLD", "SIGUSR1"}
InfoVals  == {"info_a", "info_b"}
Handlers  == {"NULL", "SIG_IGN", "prev_handler"}
FlagSets  == {{}, {"SA_SIGINFO"}}

\* a handler that writes for whatever signal it is entered with
handler_writes_any(sig) ==
    <<[op |-> "write", fd |-> "selfpipe[1]", n |-> 1]>>

\* sigchld_handler, lines 168-170: the bytes written for this signal
handler_writes(sig) ==
    IF sig = "SIGCHLD"
    THEN <<[op |-> "write", fd |-> "selfpipe[1]", n |-> 1]>>
    ELSE <<>>

\* sigchld_handler, lines 172-187: the calls made to the saved handler.
\* With SA_SIGINFO only a null pointer is skipped; without it, null and
\* SIG_IGN are skipped.
handler_chain(oa, args) ==
    IF "SA_SIGINFO" \in oa.sa_flags
    THEN IF oa.handler # "NULL"
         THEN <<[op |-> "call", fn |-> oa.handler,
                 args |-> <<args.sig, args.info, args.p>>]>>
         ELSE <<>>
    ELSE IF oa.handler # "NULL" /\ oa.handler # "SIG_IGN"
         THEN <<[op |-> "call", fn |-> oa.handler, args |-> <<args.sig>>]>>
         ELSE <<>>

\* a write whose byte never reaches the pipe
pipe_write_lost(n) == n

\* a non-blocking write of one byte: dropped with EAGAIN when the pipe is full
pipe_write(n) == IF n < PipeCapacity THEN n + 1 ELSE n

\* select_ex, lines 246-257: the timeout handed to select
select_ex(ms) ==
    IF ms # 0
    THEN [null |-> FALSE, tv_sec |-> ms \div 1000,
          tv_usec |-> (ms % 1000) * 1000]
    ELSE [null |-> TRUE, tv_sec |-> 0, tv_usec |-> 0]

TimevalMs(tv) == tv.tv_sec * 1000 + tv.tv_usec \div 1000

\* wait_for_sigchld, sigtimedwait build, lines 282-284
sigtimedwait_ts(ms) ==
    [tv_sec |-> ms \div 1000, tv_nsec |-> (ms % 1000) * 1000000]

TimespecMs(ts) == ts.tv_sec * 1000 + ts.tv_nsec \div 1000000

\* wait_for_sigchld, lines 269-271: what follows the return of select_ex
after_select(r) == IF r = 0 THEN "return_true" ELSE "read"

\* a wait that reports a failed read as a signal
after_read_inverted(r) == IF r = -1 THEN FALSE ELSE TRUE

\* wait_for_sigchld, lines 273-278: the result after native::read returned r
after_read(r) == IF r = -1 THEN TRUE ELSE FALSE

\* wait_for_sigchld, sigtimedwait build, line 290
after_sigtimedwait(r) == (r = "SIGCHLD")

RelayInit ==
    /\ selfpipe = 0
    /\ old_action \in [sa_flags : FlagSets, handler : Handlers]
    /\ hpc = "idle"
    /\ hargs = NoArgs
    /\ hlog = <<>>
    /\ wpc = "idle"
    /\ msecs = 0
    /\ elapsed = 0
    /\ sel = <<>>
    /\ rd = <<>>
    /\ ret = <<>>
    /\ spc = "idle"
    /\ pending = FALSE
    /\ sig_r = <<>>
    /\ sret = <<>>
    /\ NavIdle
    /\ ArchIdle
    /\ CoreIdle
    /\ ViewIdle

\* the kernel delivers a signal and enters sigchld_handler (line 166)
Deliver(sig, info) ==
    /\ hpc \in {"idle", "done"}
    /\ hpc' = "write"
    /\ hargs' = [sig |-> sig, info |-> info, p |-> "ucontext"]
    /\ hlog' = <<>>
    /\ pending' = (pending \/ sig = "SIGCHLD")
    /\ UNCHANGED <<selfpipe, old_action, wpc, msecs, elapsed, sel, rd, ret,
                   spc, sig_r, sret>>
    /\ UNCHANGED <<navVars, archVars, coreVars, viewVars>>

\* lines 168-170
HandlerWrite ==
    /\ hpc = "write"
    /\ hlog' = hlog \o handler_writes(hargs.sig)
    /\ selfpipe' = IF handler_writes(hargs.sig) # <<>>
                   THEN pipe_write(selfpipe) ELSE selfpipe
    /\ hpc' = "chain"
    /\ UNCHANGED <<old_action, hargs, wpc, msecs, elapsed, sel, rd, ret,
                   spc, pending, sig_r, sret>>
    /\ UNCHANGED <<navVars, archVars, coreVars, viewVars>>

\* lines 172-187; calling the pointer SIG_IGN is a jump to address 1
HandlerChain ==
    /\ hpc = "chain"
    /\ hlog' = hlog \o handler_chain(old_action, hargs)
    /\ hpc' = IF /\ handler_chain(old_action, hargs) # <<>>
                 /\ old_action.handler = "SIG_IGN"
              THEN "crashed" ELSE "done"
    /\ UNCHANGED <<selfpipe, old_action, hargs, wpc, msecs, elapsed, sel, rd,
                   ret, spc, pending, sig_r, sret>>
    /\ UNCHANGED <<navVars, archVars, coreVars, viewVars>>

\* wait_for_sigchld(ms) is entered, in both builds
WaitCall(ms) ==
    /\ wpc \in {"idle", "done"}
    /\ spc \in {"idle", "done"}
    /\ hpc # "crashed"
    /\ wpc' = "select"
    /\ spc' = "wait"
    /\ msecs' = ms
    /\ elapsed' = 0
    /\ sel' = <<>>
    /\ rd' = <<>>
    /\ ret' = <<>>
    /\ sig_r' = <<>>
    /\ sret' = <<>>
    /\ UNCHANGED <<selfpipe, old_action, hpc, hargs, hlog, pending>>
    /\ UNCHANGED <<navVars, archVars, coreVars, viewVars>>

\* time passes while a wait is blocked
Tick ==
    /\ wpc = "select" \/ spc = "wait"
    /\ elapsed < MaxElapsed
    /\ elapsed' = elapsed + TickMs
    /\ UNCHANGED <<selfpipe, old_action, hpc, hargs, hlog, wpc, msecs, sel,
                   rd, ret, spc, pending, sig_r, sret>>
    /\ UNCHANGED <<navVars, archVars, coreVars, viewVars>>

SelectReturns(r) ==
    /\ sel' = <<r>>
    /\ IF after_select(r) = "return_true"
       THEN ret' = <<TRUE>> /\ wpc' = "done"
       ELSE ret' = ret /\ wpc' = "read"
    /\ UNCHANGED <<selfpipe, old_action, hpc, hargs, hlog, msecs, elapsed,
                   rd, spc, pending, sig_r, sret>>
    /\ UNCHANGED <<navVars, archVars, coreVars, viewVars>>

\* line 269: the read end is readable
SelectReadable ==
    /\ wpc = "select"
    /\ selfpipe > 0
    /\ SelectReturns(1)

\* line 269: the timeout of select_ex expired with nothing to read
SelectTimeout ==
    /\ wpc = "select"
    /\ selfpipe = 0
    /\ ~select_ex(msecs).null
    /\ elapsed >= TimevalMs(select_ex(msecs))
    /\ SelectReturns(0)

\* line 269: select failed with an error other than EINTR
SelectError ==
    /\ wpc = "select"
    /\ SelectReturns(-1)

\* lines 273-278: the non-blocking read of one byte
WaitRead ==
    /\ wpc = "read"
    /\ rd' = IF selfpipe > 0 THEN <<1>> ELSE <<-1>>
    /\ selfpipe' = IF selfpipe > 0 THEN selfpipe - 1 ELSE selfpipe
    /\ ret' = <<after_read(rd'[1])>>
    /\ wpc' = "done"
    /\ UNCHANGED <<old_action, hpc, hargs, hlog, msecs, elapsed, sel, spc,
                   pending, sig_r, sret>>
    /\ UNCHANGED <<navVars, archVars, coreVars, viewVars>>

\* line 290: sigtimedwait returns the pending signal
SigtimedwaitSignal ==
    /\ spc = "wait"
    /\ pending
    /\ pending' = FALSE
    /\ sig_r' = <<"SIGCHLD">>
    /\ sret' = <<after_sigtimedwait("SIGCHLD")>>
    /\ spc' = "done"
    /\ UNCHANGED <<selfpipe, old_action, hpc, hargs, hlog, wpc, msecs,
                   elapsed, sel, rd, ret>>
    /\ UNCHANGED <<navVars, archVars, coreVars, viewVars>>

\* line 290: the timespec expired, sigtimedwait fails with EAGAIN
SigtimedwaitTimeout ==
    /\ spc = "wait"
    /\ ~pending
    /\ elapsed >= TimespecMs(sigtimedwait_ts(msecs))
    /\ sig_r' = <<"EAGAIN">>
    /\ sret' = <<after_sigtimedwait("EAGAIN")>>
    /\ spc' = "done"
    /\ UNCHANGED <<selfpipe, old_action, hpc, hargs, hlog, wpc, msecs,
                   elapsed, sel, rd, ret, pending>>
    /\ UNCHANGED <<navVars, archVars, coreVars, viewVars>>

RelayNext ==
    \/ \E sig \in Signals, info \in InfoVals : Deliver(sig, info)
    \/ HandlerWrite
    \/ HandlerChain
    \/ \E ms \in MsecsVals : WaitCall(ms)
    \/ Tick
    \/ SelectReadable
    \/ SelectTimeout
    \/ SelectError
    \/ WaitRead
    \/ SigtimedwaitSignal
    \/ SigtimedwaitTimeout

SpecRelay == RelayInit /\ [][RelayNext]_vars

\* the step of wait_for_sigchld out of a select that found the pipe readable
SelectReadableStep ==
    wpc = "select" /\ wpc' = "read" /\ sel' = <<1>> /\ SelectReadable

\* the step of wait_for_sigchld through its read
WaitReadStep == wpc = "read" /\ wpc' = "done" /\ WaitRead

\* select returns once the read end is readable, and the read that follows
\* it is carried out
SpecRelayFair ==
    /\ SpecRelay
    /\ WF_wpc(SelectReadableStep)
    /\ WF_wpc(WaitReadStep)

(***************************************************************************)
(* Properties of the signal relay                                          *)
(***************************************************************************)

\* C1 as stated: on the self-pipe build wait_for_sigchld returns true
\* exactly when the timeout elapsed with no byte available, and false
\* exactly when one byte was drained from the read end.
C1_TrueIffTimeout ==
    wpc = "done" =>
        /\ (ret = <<TRUE>>) <=> (sel = <<0>>)
        /\ (ret = <<FALSE>>) <=> (rd = <<1>>)

\* C1 amended: wait_for_sigchld returns false exactly when it drained one
\* byte; it returns true exactly when no byte was drained, which is either
\* the timeout of a non-zero msecs elapsing on an empty pipe, or select
\* failing and the non-blocking read finding the pipe empty.
C1_FalseIffDrained ==
    /\ [](wpc = "done" =>
            /\ (ret = <<FALSE>>) <=> (rd = <<1>>)
            /\ (ret = <<TRUE>>) <=>
                   (sel = <<0>> \/ (sel = <<-1>> /\ rd = <<-1>>))
            /\ sel = <<0>> => (rd = <<>> /\ msecs # 0 /\ elapsed >= msecs))
    /\ [][(wpc = "select" /\ wpc' = "done") =>
            (ret' = <<TRUE>> /\ selfpipe = 0 /\ selfpipe' = selfpipe)]_vars
    /\ [][(wpc = "read" /\ wpc' = "done") =>
            /\ (ret' = <<FALSE>>) <=> (selfpipe > 0 /\ selfpipe' = selfpipe - 1)
            /\ (ret' = <<TRUE>>) <=> (selfpipe = 0 /\ selfpipe' = 0)]_vars

C1_Witness ==
    wpc = "done" /\ sel = <<-1>> /\ rd = <<-1>> /\ ret = <<TRUE>> /\ msecs = 0

\* C2: the sigtimedwait build has the contract of the self-pipe build:
\* true means timed out, false means a signal was observed, the two builds
\* return the same boolean when they saw the same thing, and msecs = 0
\* blocks until a signal instead of returning at once.
C2_SameContract ==
    /\ spc = "done" =>
          /\ (sret = <<TRUE>>) <=> (sig_r = <<"EAGAIN">>)
          /\ (sret = <<FALSE>>) <=> (sig_r = <<"SIGCHLD">>)
          /\ msecs = 0 => sig_r = <<"SIGCHLD">>
    /\ ( /\ wpc = "done" /\ spc = "done" /\ sel # <<-1>>
         /\ (rd = <<1>>) <=> (sig_r = <<"SIGCHLD">>) ) => ret = sret

\* what C3 expects a completed handler to have written
C3_Writes ==
    IF hargs.sig = "SIGCHLD"
    THEN <<[op |-> "write", fd |-> "selfpipe[1]", n |-> 1]>>
    ELSE <<>>

\* what C3 expects a completed handler to have called
C3_Calls ==
    IF old_action.handler \in {"NULL", "SIG_IGN"}
    THEN <<>>
    ELSE <<[op |-> "call", fn |-> old_action.handler,
            args |-> IF "SA_SIGINFO" \in old_action.sa_flags
                     THEN <<hargs.sig, hargs.info, hargs.p>>
                     ELSE <<hargs.sig>>]>>

RegionSize == 4        \* bytes in the region
MaxCount   == 2        \* largest instruction count of one request
AddrSpace  == 65536    \* edb::address_t wraps here

\* edb::Instruction::MAX_SIZE of the decoder modelled below
MAX_SIZE == 3

Bytes       == 0..MAX_SIZE
RegionBases == {0, 8}
Offsets     == 0..(RegionSize + 1)

qMin(a, b) == IF a < b THEN a ELSE b

\* unsigned arithmetic of edb::address_t
UAdd(a, b) == (a + b) % AddrSpace
USub(a, b) == (a - b + AddrSpace) % AddrSpace

region_end == region_base + RegionSize

\* edb::Instruction(first, last, rva) over the bytes buf[first..last):
\* opcode byte b > 0 starts an instruction of b bytes, which decodes when
\* all of them lie in the window; opcode 0 does not decode.  An instruction
\* that did not decode has byte_size 1.
Instruction(buf, first, last) ==
    LET b == IF first < last /\ first < Len(buf) THEN buf[first + 1] ELSE 0
    IN  IF b # 0 /\ first + b <= last
        THEN [valid |-> TRUE, byte_size |-> b]
        ELSE [valid |-> FALSE, byte_size |-> 1]

\* edb::v1::get_instruction_bytes(address, buf, &size): the bytes read, at
\* most size of them and none outside the region; empty when it fails
get_instruction_bytes(address, size) ==
    IF address >= region_base /\ address < region_end /\ size > 0
    THEN [k \in 1..qMin(size, region_end - address) |->
              mem[address - region_base + k]]
    ELSE <<>>

\* a forward step that does not move over bytes that fail to decode
following_step_stuck(cur) ==
    LET buf_size == qMin(USub(region_end, cur), MAX_SIZE + 1)
        buf  == get_instruction_bytes(UAdd(region_base, cur), buf_size)
        inst == Instruction(buf, 0, Len(buf))
    IN  IF buf # <<>> /\ inst.valid
        THEN [addr |-> UAdd(cur, inst.byte_size), brk |-> FALSE]
        ELSE [addr |-> cur, brk |-> TRUE]

\* following_instructions, lines 414-434: one iteration of the loop
following_step(cur) ==
    LET buf_size == qMin(USub(region_end, cur), MAX_SIZE + 1)
        buf  == get_instruction_bytes(UAdd(region_base, cur), buf_size)
        inst == Instruction(buf, 0, Len(buf))
    IN  IF buf = <<>>
        THEN [addr |-> UAdd(cur, 1), brk |-> TRUE]
        ELSE IF inst.valid
             THEN [addr |-> UAdd(cur, inst.byte_size), brk |-> FALSE]
             ELSE [addr |-> UAdd(cur, 1), brk |-> TRUE]

RECURSIVE following_loop(_, _, _)
\* following_instructions, lines 412-437: the loop from iteration k on
following_loop(cur, k, cnt) ==
    IF k >= cnt
    THEN cur
    ELSE LET s == following_step(cur)
         IN  IF s.brk THEN s.addr ELSE following_loop(s.addr, k + 1, cnt)

\* QDisassemblyView::following_instructions
following_instructions(cur, cnt) == following_loop(cur, 0, cnt)

\* a stage 1 that decodes to the end of the buffer, not to the current offset
stage1_match_unbounded(buf, cur, offs) ==
    LET inst == Instruction(buf, offs, Len(buf))
    IN  inst.valid /\ offs + inst.byte_size >= cur

\* length_disasm_back, lines 132-133: the test of stage 1
stage1_match(buf, cur, offs) ==
    LET inst == Instruction(buf, offs, cur)
    IN  inst.valid /\ offs + inst.byte_size = cur

\* a stage 1 that keeps the match nearest to the current offset
stage1_keep_first(finalSize, byte_size) ==
    IF finalSize # 0 THEN finalSize ELSE byte_size

\* length_disasm_back, line 134: finalSize = inst.byte_size()
stage1_keep(finalSize, byte_size) == byte_size

RECURSIVE stage1_loop(_, _, _, _)
\* length_disasm_back, lines 130-136; offs = -1 is size_t(-1)
stage1_loop(buf, cur, offs, finalSize) ==
    IF offs = -1
    THEN finalSize
    ELSE stage1_loop(buf, cur, offs - 1,
                     IF stage1_match(buf, cur, offs)
                     THEN stage1_keep(finalSize,
                                      Instruction(buf, offs, cur).byte_size)
                     ELSE finalSize)

stage1(buf, cur) == stage1_loop(buf, cur, cur - 1, 0)

\* length_disasm_back, lines 144-147: the test of stage 2
stage2_match(buf, bufSize, cur, offs) ==
    LET originalCurrentInst == Instruction(buf, cur, bufSize)
        instPrev   == Instruction(buf, offs, cur)
        instNewCur == Instruction(buf, offs + instPrev.byte_size, bufSize)
    IN  /\ instPrev.valid
        /\ instNewCur.valid
        /\ offs + instPrev.byte_size + instNewCur.byte_size
               = cur + originalCurrentInst.byte_size

RECURSIVE stage2_loop(_, _, _, _, _)
\* length_disasm_back, lines 142-150
stage2_loop(buf, bufSize, cur, offs, finalSize) ==
    IF offs = -1
    THEN finalSize
    ELSE stage2_loop(buf, bufSize, cur, offs - 1,
                     IF stage2_match(buf, bufSize, cur, offs)
                     THEN cur - offs
                     ELSE finalSize)

stage2(buf, bufSize, cur) == stage2_loop(buf, bufSize, cur, cur - 1, 0)

RECURSIVE stage3_loop(_, _, _, _)
\* length_disasm_back, lines 155-161
stage3_loop(buf, bufSize, cur, offs) ==
    IF offs = -1
    THEN 0
    ELSE IF ~Instruction(buf, offs, bufSize).valid
         THEN cur - offs
         ELSE stage3_loop(buf, bufSize, cur, offs - 1)

stage3(buf, bufSize, cur) == stage3_loop(buf, bufSize, cur, cur - 1)

\* the stage of length_disasm_back that produced its result, 0 for none
stage_used(buf, bufSize, cur) ==
    IF stage1(buf, cur) # 0 THEN 1
    ELSE IF stage2(buf, bufSize, cur) # 0 THEN 2
    ELSE IF stage3(buf, bufSize, cur) # 0 THEN 3
    ELSE 0

\* an order that tries stage 2 before stage 1
length_disasm_back_stage2_first(buf, bufSize, cur) ==
    IF stage2(buf, bufSize, cur) # 0 THEN stage2(buf, bufSize, cur)
    ELSE IF stage1(buf, cur) # 0 THEN stage1(buf, cur)
    ELSE stage3(buf, bufSize, cur)

\* length_disasm_back, lines 127-162
length_disasm_back(buf, bufSize, cur) ==
    IF stage1(buf, cur) # 0 THEN stage1(buf, cur)
    ELSE IF stage2(buf, bufSize, cur) # 0 THEN stage2(buf, bufSize, cur)
    ELSE stage3(buf, bufSize, cur)

\* previous_instructions, lines 377-400: one iteration of the loop on the
\* heuristic path (no analyzer, or no function containing the address)
previous_step(cur) ==
    LET prevReq == qMin(USub(cur, region_base), MAX_SIZE)
        prev == get_instruction_bytes(
                    USub(UAdd(region_base, cur), prevReq), prevReq)
        curb == get_instruction_bytes(UAdd(region_base, cur), MAX_SIZE)
        buf  == prev \o curb
        size == length_disasm_back(buf, Len(buf), Len(prev))
    IN  IF prev = <<>> \/ curb = <<>>
        THEN [addr |-> USub(cur, 1), brk |-> TRUE, stage |-> 0, size |-> 0]
        ELSE IF size = 0
             THEN [addr |-> USub(cur, 1), brk |-> FALSE, stage |-> 0,
                   size |-> 0]
             ELSE [addr |-> USub(cur, size), brk |-> FALSE,
                   stage |-> stage_used(buf, Len(buf), Len(prev)),
                   size |-> size]

RECURSIVE previous_trace(_, _, _)
\* previous_instructions, lines 324-401: the steps taken from iteration k on
previous_trace(cur, k, cnt) ==
    IF k >= cnt
    THEN <<>>
    ELSE LET s == previous_step(cur)
         IN  IF s.brk THEN <<s>>
             ELSE <<s>> \o previous_trace(s.addr, k + 1, cnt)

\* QDisassemblyView::previous_instructions
previous_instructions(cur, cnt) ==
    LET t == previous_trace(cur, 0, cnt)
    IN  IF t = <<>> THEN cur ELSE t[Len(t)].addr

\* the instruction that starts at the address at, decoded from all its bytes
InstructionAt(at) ==
    LET bytes == get_instruction_bytes(at, MAX_SIZE)
    IN  Instruction(bytes, 0, Len(bytes))

\* previous_instructions, lines 344-367: one iteration of the walk from
\* function_start towards target (both are addresses, not offsets)
walk_step(function_start, target) ==
    LET buf_size == qMin(USub(function_start, region_base), MAX_SIZE)
        buf  == get_instruction_bytes(function_start, buf_size)
        inst == Instruction(buf, 0, Len(buf))
        seen == [at |-> function_start, valid |-> inst.valid,
                 byte_size |-> inst.byte_size]
    IN  IF buf = <<>>
        THEN [brk |-> TRUE, next |-> function_start, decoded |-> <<>>]
        ELSE IF ~inst.valid
        THEN [brk |-> TRUE, next |-> function_start, decoded |-> <<seen>>]
        ELSE IF UAdd(function_start, inst.byte_size) >= target
        THEN [brk |-> TRUE, next |-> function_start, decoded |-> <<seen>>]
        ELSE [brk |-> FALSE, next |-> UAdd(function_start, inst.byte_size),
              decoded |-> <<seen>>]

RECURSIVE walk_loop(_, _)
\* previous_instructions, lines 343-368: the while(true) loop; the result is
\* the final function_start and the instructions decoded on the way
walk_loop(function_start, target) ==
    LET s == walk_step(function_start, target)
    IN  IF s.brk
        THEN [function_start |-> s.next, decoded |-> s.decoded]
        ELSE LET rest == walk_loop(s.next, target)
             IN  [function_start |-> rest.function_start,
                  decoded |-> s.decoded \o rest.decoded]

\* previous_instructions, lines 333-400: one iteration of the for loop when
\* the analyzer reports the function entry f for the address of offset cur
previous_step_analyzer(cur, f) ==
    LET address == UAdd(region_base, cur)
        w == walk_loop(f, address)
    IN  IF address # f
        THEN [exact |-> TRUE,
              addr |-> USub(w.function_start, region_base),
              decoded |-> w.decoded]
        ELSE [exact |-> FALSE, addr |-> previous_step(cur).addr,
              decoded |-> <<>>]

NavInit ==
    /\ mem \in [1..RegionSize -> Bytes]
    /\ region_base \in RegionBases
    /\ navpc = "idle"
    /\ start_address = 0
    /\ current_address = 0
    /\ count = 0
    /\ i = 0
    /\ comp = <<>>
    /\ bf = <<>>
    /\ ldb = <<>>
    /\ walk = <<>>
    /\ upc = "idle"
    /\ inst_buf = <<>>
    /\ max_offset = 0
    /\ offset = 0
    /\ line = 0
    /\ lines_to_render = 0
    /\ RelayIdle
    /\ ArchIdle
    /\ CoreIdle
    /\ ViewIdle

\* no request was made of this view yet; the requests do not depend on one
\* another, so each behaviour follows a single one
NavQuiet ==
    /\ navpc = "idle" /\ upc = "idle"
    /\ comp = <<>> /\ bf = <<>> /\ ldb = <<>> /\ walk = <<>>

\* the locals of following_instructions are gone
FollowingReset ==
    /\ navpc' = "idle"
    /\ start_address' = 0
    /\ current_address' = 0
    /\ count' = 0
    /\ i' = 0

\* the locals of updateDisassembly are gone
UpdateReset ==
    /\ upc' = "idle"
    /\ inst_buf' = <<>>
    /\ max_offset' = 0
    /\ offset' = 0
    /\ line' = 0
    /\ lines_to_render' = 0

\* following_instructions(a, c) is entered, line 410
FollowingCall(a, c) ==
    /\ NavQuiet
    /\ navpc' = "loop"
    /\ start_address' = a
    /\ current_address' = a
    /\ count' = c
    /\ i' = 0
    /\ comp' = <<>>
    /\ bf' = <<>>
    /\ ldb' = <<>>
    /\ walk' = <<>>
    /\ UpdateReset
    /\ UNCHANGED <<mem, region_base>>
    /\ UNCHANGED <<relayVars, archVars, coreVars, viewVars>>

\* lines 412-435: one iteration
FollowingIter ==
    /\ navpc = "loop"
    /\ i < count
    /\ LET s == following_step(current_address)
       IN  /\ current_address' = s.addr
           /\ IF s.brk
              THEN navpc' = "done" /\ i' = i
              ELSE navpc' = "loop" /\ i' = i + 1
    /\ UNCHANGED <<mem, region_base, start_address, count, comp, bf, ldb, walk, upc,
                   inst_buf, max_offset, offset, line, lines_to_render>>
    /\ UNCHANGED <<relayVars, archVars, coreVars, viewVars>>

\* lines 412, 437: the loop condition fails and the function returns
FollowingReturn ==
    /\ navpc = "loop"
    /\ ~(i < count)
    /\ navpc' = "done"
    /\ UNCHANGED <<mem, region_base, start_address, current_address, count,
                   i, comp, bf, ldb, walk, upc, inst_buf, max_offset, offset, line,
                   lines_to_render>>
    /\ UNCHANGED <<relayVars, archVars, coreVars, viewVars>>

\* a scroll of m instructions followed by one of n, and one of m + n
Compose(a, m, n) ==
    /\ NavQuiet
    /\ comp' = <<[a |-> a, m |-> m, n |-> n,
                  first  |-> following_instructions(a, m),
                  second |-> following_instructions(
                                 following_instructions(a, m), n),
                  direct |-> following_instructions(a, m + n)]>>
    /\ bf' = <<>>
    /\ ldb' = <<>>
    /\ walk' = <<>>
    /\ FollowingReset
    /\ UpdateReset
    /\ UNCHANGED <<mem, region_base>>
    /\ UNCHANGED <<relayVars, archVars, coreVars, viewVars>>

\* k instructions up from c, then k instructions down
BackForward(c, k) ==
    /\ NavQuiet
    /\ bf' = <<[c |-> c, k |-> k,
                steps |-> previous_trace(c, 0, k),
                back  |-> previous_instructions(c, k),
                forth |-> following_instructions(
                              previous_instructions(c, k), k)]>>
    /\ comp' = <<>>
    /\ ldb' = <<>>
    /\ walk' = <<>>
    /\ FollowingReset
    /\ UpdateReset
    /\ UNCHANGED <<mem, region_base>>
    /\ UNCHANGED <<relayVars, archVars, coreVars, viewVars>>

\* length_disasm_back over the buffer previous_instructions builds for the
\* offset c, lines 381-391: up to MAX_SIZE bytes before c and MAX_SIZE from c
LengthDisasmBack(c) ==
    /\ NavQuiet
    /\ LET p    == qMin(c, MAX_SIZE)
           prev == get_instruction_bytes(region_base + c - p, p)
           curb == get_instruction_bytes(region_base + c, MAX_SIZE)
           buf  == prev \o curb
       IN  /\ curb # <<>>
           /\ ldb' = <<[buf |-> buf, bufSize |-> Len(buf),
                        curInstOffset |-> Len(prev),
                        s1 |-> stage1(buf, Len(prev)),
                        s2 |-> stage2(buf, Len(buf), Len(prev)),
                        s3 |-> stage3(buf, Len(buf), Len(prev)),
                        size |-> length_disasm_back(buf, Len(buf),
                                                    Len(prev))]>>
    /\ comp' = <<>>
    /\ bf' = <<>>
    /\ walk' = <<>>
    /\ FollowingReset
    /\ UpdateReset
    /\ UNCHANGED <<mem, region_base>>
    /\ UNCHANGED <<relayVars, archVars, coreVars, viewVars>>

\* one backward step from the offset c when the analyzer knows a function
\* that contains its address and starts at f, lines 333-374
AnalyzerPrevious(c, f) ==
    /\ NavQuiet
    /\ walk' = <<[c |-> c, f |-> f, t |-> UAdd(region_base, c),
                  exact |-> previous_step_analyzer(c, f).exact,
                  decoded |-> previous_step_analyzer(c, f).decoded,
                  current_address |-> previous_step_analyzer(c, f).addr,
                  p |-> UAdd(region_base,
                             previous_step_analyzer(c, f).addr)]>>
    /\ comp' = <<>>
    /\ bf' = <<>>
    /\ ldb' = <<>>
    /\ FollowingReset
    /\ UpdateReset
    /\ UNCHANGED <<mem, region_base>>
    /\ UNCHANGED <<relayVars, archVars, coreVars, viewVars>>

\* updateDisassembly(lines), lines 862-881, with the scroll bar at scroll
UpdateCall(scroll, lines) ==
    /\ NavQuiet
    /\ LET start_addr == region_base + scroll
           read == get_instruction_bytes(start_addr, MAX_SIZE * lines)
       IN  /\ inst_buf' = read
           /\ lines_to_render' = IF read = <<>> THEN 0 ELSE lines
           /\ max_offset' = qMin(region_end - start_addr, Len(read))
    /\ offset' = 0
    /\ line' = 0
    /\ upc' = "loop"
    /\ comp' = <<>>
    /\ bf' = <<>>
    /\ ldb' = <<>>
    /\ walk' = <<>>
    /\ FollowingReset
    /\ UNCHANGED <<mem, region_base>>
    /\ UNCHANGED <<relayVars, archVars, coreVars, viewVars>>

\* lines 882-897: one line of the listing
UpdateIter ==
    /\ upc = "loop"
    /\ line < lines_to_render /\ offset < max_offset
    /\ LET inst == Instruction(inst_buf, offset, Len(inst_buf))
       IN  offset' = IF inst.valid THEN offset + inst.byte_size
                     ELSE offset + 1
    /\ line' = line + 1
    /\ UNCHANGED <<mem, region_base, navpc, start_address, current_address,
                   count, i, comp, bf, ldb, walk, upc, inst_buf, max_offset,
                   lines_to_render>>
    /\ UNCHANGED <<relayVars, archVars, coreVars, viewVars>>

\* lines 898-906: the loop ends, the number of lines is returned
UpdateReturn ==
    /\ upc = "loop"
    /\ ~(line < lines_to_render /\ offset < max_offset)
    /\ lines_to_render' = line
    /\ upc' = "done"
    /\ UNCHANGED <<mem, region_base, navpc, start_address, current_address,
                   count, i, comp, bf, ldb, walk, inst_buf, max_offset, offset, line>>
    /\ UNCHANGED <<relayVars, archVars, coreVars, viewVars>>

NavNext ==
    \/ \E a \in Offsets, c \in 0..MaxCount : FollowingCall(a, c)
    \/ FollowingIter
    \/ FollowingReturn
    \/ \E a \in Offsets, m \in 0..MaxCount, n \in 0..MaxCount :
           Compose(a, m, n)
    \/ \E c \in Offsets, k \in 1..MaxCount : BackForward(c, k)
    \/ \E c \in Offsets : LengthDisasmBack(c)
    \/ \E c \in Offsets :
         \E f \in region_base..(region_base + c) : AnalyzerPrevious(c, f)
    \/ \E scroll \in Offsets, lines \in 0..MaxCount : UpdateCall(scroll, lines)
    \/ UpdateIter
    \/ UpdateReturn

SpecNav == NavInit /\ [][NavNext]_vars

(***************************************************************************)
(* Properties of the navigator                                             *)
(***************************************************************************)

\* C4: forward navigation composes: m instructions and then n more from a
\* end where m + n instructions from a end, whatever the bytes decode to;
\* bytes that fail to decode never end the multi-step scan early.
C4_ForwardComposes ==
    comp # <<>> => comp[1].second = comp[1].direct

\* a valid instruction decodes at offset c of the region
StartsInstruction(c) ==
    /\ c < RegionSize
    /\ mem[c + 1] # 0
    /\ c + mem[c + 1] <= RegionSize

\* every one of the k backward steps was taken, through a stage in stages
SteppedThrough(stages) ==
    /\ bf # <<>>
    /\ Len(bf[1].steps) = bf[1].k
    /\ \A j \in 1..Len(bf[1].steps) :
           bf[1].steps[j].stage \in stages /\ bf[1].steps[j].size > 0

\* C5 as stated: from an instruction boundary c, when the backward steps
\* succeed through strategy 1 or strategy 2, as many forward steps from the
\* address they reach arrive exactly at c.
C5_RoundTrip12 ==
    (SteppedThrough({1, 2}) /\ StartsInstruction(bf[1].c))
        => bf[1].forth = bf[1].c

\* C5 amended: when every backward step succeeds through strategy 1, the
\* same number of forward steps from the address reached arrives exactly
\* at c; when a single backward step succeeds through strategy 2, the
\* forward step from c - d ends strictly before c.
C5_RoundTrip1 ==
    /\ SteppedThrough({1}) => bf[1].forth = bf[1].c
    /\ (SteppedThrough({2}) /\ bf[1].k = 1) =>
           (bf[1].back < bf[1].forth /\ bf[1].forth < bf[1].c)

C5_Witness ==
    /\ SteppedThrough({1})
    /\ bf[1].k = 2
    /\ StartsInstruction(bf[1].c)
    /\ bf[1].steps[1].size # bf[1].steps[2].size
    /\ bf[1].forth = bf[1].c

\* the bytes a forward step from offset a of the region moves over
ForwardAdvance(a) == IF StartsInstruction(a) THEN mem[a + 1] ELSE 1

\* C6: every iteration of following_instructions moves forward, by the
\* length of the instruction decoded or by one byte when nothing decodes or
\* nothing can be read; it runs at most count iterations and with
\* count >= 1 returns an address above the one it was given.  The loop of
\* updateDisassembly moves forward on every line as well.
C6_ForwardProgress ==
    /\ [](navpc \in {"loop", "done"} => i <= count)
    /\ [](navpc = "done" /\ count >= 1 => current_address > start_address)
    /\ [][(navpc = "loop" /\ i < count /\
             <<navpc, i, current_address>>' # <<navpc, i, current_address>>)
          => /\ current_address'
                    = current_address + ForwardAdvance(current_address)
             /\ (i' = i + 1 \/ navpc' = "done")]_vars
    /\ [](upc \in {"loop", "done"} => line <= MaxCount)
    /\ [][(upc = "loop" /\ line' # line)
          => (line' = line + 1 /\ offset' > offset
              /\ offset' <= offset + MAX_SIZE)]_vars

C6_Witness ==
    /\ navpc = "done"
    /\ count = 2
    /\ i = 2
    /\ current_address > start_address + 2

(***************************************************************************)
(*                       ARCHITECTURE PROCESSORS                           *)
(***************************************************************************)

\* a register that is not part of the State
Absent == -1

\* State::operator[] / State::gp_register: the Register found, invalid when
\* the State has none; garbage is what valueAsAddress() of an invalid
\* Register yields
RegisterOf(state, name, garbage) ==
    IF name \in DOMAIN state /\ state[name] # Absent
    THEN [valid |-> TRUE, value |-> state[name]]
    ELSE [valid |-> FALSE, value |-> garbage]

(***************************************************************************)
(* x86: get_effective_address                                              *)
(***************************************************************************)

X86States ==
    [rax : {Absent, 8}, rbx : {Absent, 4096}, rip : {Absent, 4096, 8192},
     fs_base : {Absent, 65536}, gs_base : {Absent, 131072}]

X86Operands ==
    [valid : {TRUE}, general_type : {"TYPE_REGISTER"}, reg : {"rax", "rip"},
     base : {"none"}, index : {"none"}, scale : {1}, disp : {0}]
    \cup
    [valid : {TRUE}, general_type : {"TYPE_EXPRESSION"}, reg : {"none"},
     base : {"none", "rbx", "rip"}, index : {"none", "rax"}, scale : {1, 4},
     disp : {0, 16}]
    \cup
    [valid : BOOLEAN,
     general_type : {"TYPE_ABSOLUTE", "TYPE_IMMEDIATE", "TYPE_REL"},
     reg : {"none"}, base : {"none"}, index : {"none"}, scale : {1},
     disp : {32}]

X86Owners ==
    [rva : {4096}, size : {4, 7},
     prefix : SUBSET {"PREFIX_GS", "PREFIX_FS"}]

GarbageVals == {0, 47825}

\* lines 139-149 and 154-164: the segment bases added for a GS or FS prefix;
\* ok is FALSE where the code returns 0 early
x86_add_segment_base(sum, owner, state, garbage) ==
    LET gsBase == RegisterOf(state, "gs_base", garbage)
        fsBase == RegisterOf(state, "fs_base", garbage)
        afterGs == IF "PREFIX_GS" \in owner.prefix
                   THEN sum + gsBase.value ELSE sum
    IN  IF "PREFIX_GS" \in owner.prefix /\ ~gsBase.valid
        THEN [ok |-> FALSE, ret |-> 0]
        ELSE IF "PREFIX_FS" \in owner.prefix /\ ~fsBase.valid
             THEN [ok |-> FALSE, ret |-> 0]
             ELSE [ok |-> TRUE,
                   ret |-> IF "PREFIX_FS" \in owner.prefix
                           THEN afterGs + fsBase.value ELSE afterGs]

\* get_effective_address of arch/x86-generic, lines 109-177; owner is
\* op.owner(), the instruction the operand belongs to
x86_get_effective_address(op, owner, state, garbage) ==
    IF ~op.valid
    THEN [ok |-> TRUE, ret |-> 0]
    ELSE CASE op.general_type = "TYPE_REGISTER" ->
                [ok |-> TRUE, ret |-> RegisterOf(state, op.reg, garbage).value]
           [] op.general_type = "TYPE_EXPRESSION" ->
                LET baseR  == RegisterOf(state, op.base, garbage)
                    indexR == RegisterOf(state, op.index, garbage)
                    base0  == IF baseR.valid THEN baseR.value ELSE 0
                    index  == IF indexR.valid THEN indexR.value ELSE 0
                    base   == IF op.base = "rip" THEN base0 + owner.size
                              ELSE base0
                IN  x86_add_segment_base(base + index * op.scale + op.disp,
                                         owner, state, garbage)
           [] op.general_type = "TYPE_ABSOLUTE" ->
                x86_add_segment_base(op.disp, owner, state, garbage)
           [] op.general_type = "TYPE_IMMEDIATE" ->
                [ok |-> TRUE, ret |-> 0]
           [] op.general_type = "TYPE_REL" ->
                [ok |-> TRUE, ret |-> op.disp]
           [] OTHER -> [ok |-> TRUE, ret |-> 0]

(***************************************************************************)
(* ARM: get_effective_address                                              *)
(***************************************************************************)

CPUModes == {"ARM32", "Thumb", "ARM64"}

ARMStates == [r1 : {Absent, 4096}, r2 : {Absent, 4}, r15 : {Absent, 8192, 12288}]

ARMShifts ==
    [type : {"ARM_SFT_INVALID"}, value : {0}]
    \cup [type : {"ARM_SFT_LSL", "ARM_SFT_LSR"}, value : {1}]

ARMOperands ==
    [valid : {TRUE}, type : {"register"}, reg : {"r1", "r15", "d0"},
     base : {"invalid"}, index : {"invalid"}, scale : {1}, disp : {0},
     shift : {[type |-> "ARM_SFT_INVALID", value |-> 0]}]
    \cup
    [valid : {TRUE}, type : {"expression"}, reg : {"invalid"},
     base : {"r1", "r15", "invalid"}, index : {"invalid", "r2", "r15"},
     scale : {1, -1}, disp : {0, 8}, shift : ARMShifts]
    \cup
    [valid : BOOLEAN, type : {"immediate"}, reg : {"invalid"},
     base : {"invalid"}, index : {"invalid"}, scale : {1}, disp : {0},
     shift : {[type |-> "ARM_SFT_INVALID", value |-> 0]}]

ARMInsns == [valid : BOOLEAN, rva : {8192}]

\* capstoneRegToGPRIndex, lines 62-89
capstoneRegToGPRIndex(capstoneReg) ==
    CASE capstoneReg = "r1"  -> [ok |-> TRUE, regIndex |-> 1]
      [] capstoneReg = "r2"  -> [ok |-> TRUE, regIndex |-> 2]
      [] capstoneReg = "r15" -> [ok |-> TRUE, regIndex |-> 15]
      [] OTHER -> [ok |-> FALSE, regIndex |-> -1]

\* State::gp_register(index) of the ARM State
arm_gp_register(state, regIndex) ==
    CASE regIndex = 1  -> RegisterOf(state, "r1", 0)
      [] regIndex = 2  -> RegisterOf(state, "r2", 0)
      [] regIndex = 15 -> RegisterOf(state, "r15", 0)
      [] OTHER -> [valid |-> FALSE, value |-> 0]

RECURSIVE Pow2(_)
Pow2(n) == IF n = 0 THEN 1 ELSE 2 * Pow2(n - 1)

\* shift, lines 127-161, for the shifter types of ARMShifts
shift(x, type, shiftAmount) ==
    CASE type = "ARM_SFT_INVALID" -> x
      [] type = "ARM_SFT_LSL" -> x * Pow2(shiftAmount)
      [] type = "ARM_SFT_LSR" -> x \div Pow2(shiftAmount)

\* an adjustment that offsets the PC the State holds
adjustR15Value_from_state(insn, regIndex, value, cpuMode) ==
    IF regIndex = 15
    THEN CASE cpuMode = "ARM32" -> [ok |-> TRUE, value |-> value + 8]
           [] cpuMode = "Thumb" -> [ok |-> TRUE, value |-> value + 4]
           [] OTHER -> [ok |-> FALSE, value |-> 0]
    ELSE [ok |-> TRUE, value |-> value]

\* adjustR15Value, lines 104-125; cpuMode is debugger_core->cpu_mode()
adjustR15Value(insn, regIndex, value, cpuMode) ==
    IF regIndex = 15
    THEN CASE cpuMode = "ARM32" -> [ok |-> TRUE, value |-> insn.rva + 8]
           [] cpuMode = "Thumb" -> [ok |-> TRUE, value |-> insn.rva + 4]
           [] OTHER -> [ok |-> FALSE, value |-> 0]
    ELSE [ok |-> TRUE, value |-> value]

ArmFailure == [ok |-> FALSE, value |-> 0]

\* ArchProcessor::get_effective_address of arch/arm-generic, lines 166-216
arm_get_effective_address(insn, operand, state, cpuMode) ==
    IF ~operand.valid \/ ~insn.valid
    THEN ArmFailure
    ELSE IF operand.type = "register"
    THEN LET r   == capstoneRegToGPRIndex(operand.reg)
             reg == arm_gp_register(state, r.regIndex)
         IN  IF ~r.ok THEN ArmFailure
             ELSE IF ~reg.valid THEN ArmFailure
             ELSE adjustR15Value(insn, r.regIndex, reg.value, cpuMode)
    ELSE IF operand.type = "expression"
    THEN LET b      == capstoneRegToGPRIndex(operand.base)
             baseR  == arm_gp_register(state, b.regIndex)
             x      == capstoneRegToGPRIndex(operand.index)
             indexR == IF x.ok THEN arm_gp_register(state, x.regIndex)
                       ELSE [valid |-> FALSE, value |-> 0]
             adjustedRes == adjustR15Value(insn, b.regIndex, baseR.value,
                                           cpuMode)
         IN  IF ~b.ok \/ ~baseR.valid THEN ArmFailure
             ELSE IF x.ok /\ ~indexR.valid THEN ArmFailure
             ELSE IF adjustedRes.ok
                  THEN [ok |-> TRUE,
                        value |-> adjustedRes.value + operand.disp
                                  + (IF indexR.valid
                                     THEN operand.scale
                                          * shift(indexR.value,
                                                  operand.shift.type,
                                                  operand.shift.value)
                                     ELSE 0)]
                  ELSE adjustedRes
    ELSE ArmFailure

(***************************************************************************)
(* x86: is_jcc_taken                                                       *)
(***************************************************************************)

\* edb::Instruction::ConditionCode: the codes above the sixteen flag codes
CC_UNCONDITIONAL == 16
CC_CXZ  == 17
CC_ECXZ == 18
CC_RCXZ == 19

ConditionCodes == 0..19

\* rCX as its bits 0-15, 16-31 and 32-63
RcxVals == [w0 : {0, 1}, w1 : {0, 1}, hi : {0, 1}]

\* the other bits of EFLAGS: the reserved bit 1, IF
EflNoise == {2, 514}

\* x & mask # 0 for a mask of one bit
TestBit(x, mask) == (x \div mask) % 2 = 1

EflOf(f, noise) ==
    (IF f.cf THEN 1 ELSE 0) + (IF f.pf THEN 4 ELSE 0)
    + (IF f.zf THEN 64 ELSE 0) + (IF f.sf THEN 128 ELSE 0)
    + (IF f.of THEN 2048 ELSE 0) + noise

FlagVals == [cf : BOOLEAN, pf : BOOLEAN, zf : BOOLEAN, sf : BOOLEAN,
             of : BOOLEAN]

\* a table whose "below or equal" needs both flags
jcc_table_be_and(code, cf, pf, zf, sf, of) ==
    CASE code = 0  -> of
      [] code = 2  -> cf
      [] code = 4  -> zf
      [] code = 6  -> cf /\ zf
      [] code = 8  -> sf
      [] code = 10 -> pf
      [] code = 12 -> sf # of
      [] code = 14 -> zf \/ (sf # of)

\* is_jcc_taken, lines 396-421: the switch over cond & 0x0e
jcc_table(code, cf, pf, zf, sf, of) ==
    CASE code = 0  -> of
      [] code = 2  -> cf
      [] code = 4  -> zf
      [] code = 6  -> cf \/ zf
      [] code = 8  -> sf
      [] code = 10 -> pf
      [] code = 12 -> sf # of
      [] code = 14 -> zf \/ (sf # of)

\* is_jcc_taken of arch/x86-generic, lines 380-428
x86_is_jcc_taken(rcx, efl, cond) ==
    IF cond = CC_UNCONDITIONAL THEN TRUE
    ELSE IF cond = CC_RCXZ THEN rcx.w0 = 0 /\ rcx.w1 = 0 /\ rcx.hi = 0
    ELSE IF cond = CC_ECXZ THEN rcx.w0 = 0 /\ rcx.w1 = 0
    ELSE IF cond = CC_CXZ THEN rcx.w0 = 0
    ELSE LET cf == TestBit(efl, 1)
             pf == TestBit(efl, 4)
             zf == TestBit(efl, 64)
             sf == TestBit(efl, 128)
             of == TestBit(efl, 2048)
             taken == jcc_table((cond % 16) - (cond % 2), cf, pf, zf, sf, of)
         IN  IF cond % 2 = 1 THEN ~taken ELSE taken

(***************************************************************************)
(* ARM: is_jcc_taken                                                       *)
(***************************************************************************)

ArmConditionCodes == 0..15

ArmFlagVals == [N : BOOLEAN, Z : BOOLEAN, C : BOOLEAN, V : BOOLEAN]

\* the CPSR is held as its bits 28-31 (top) and its bits 0-27 (low)
CpsrLow == {16, 268435455}

CpsrOf(f, low) ==
    [top |-> (IF f.N THEN 8 ELSE 0) + (IF f.Z THEN 4 ELSE 0)
             + (IF f.C THEN 2 ELSE 0) + (IF f.V THEN 1 ELSE 0),
     low |-> low]

\* a table whose "higher" needs the zero flag set
arm_jcc_table_hi_z(code, N, Z, C, V) ==
    CASE code = 0  -> Z
      [] code = 2  -> C
      [] code = 4  -> N
      [] code = 6  -> V
      [] code = 8  -> C /\ Z
      [] code = 10 -> N = V
      [] code = 12 -> ~Z /\ (N = V)
      [] code = 14 -> TRUE

\* is_jcc_taken of arch/arm-generic, lines 377-402: the switch over cond & 0xe
arm_jcc_table(code, N, Z, C, V) ==
    CASE code = 0  -> Z
      [] code = 2  -> C
      [] code = 4  -> N
      [] code = 6  -> V
      [] code = 8  -> C /\ ~Z
      [] code = 10 -> N = V
      [] code = 12 -> ~Z /\ (N = V)
      [] code = 14 -> TRUE

\* is_jcc_taken of arch/arm-generic, lines 370-408; the masks 0x80000000,
\* 0x40000000, 0x20000000, 0x10000000 are bits 3, 2, 1, 0 of cpsr.top
arm_is_jcc_taken(cpsr, cond) ==
    LET N == TestBit(cpsr.top, 8)
        Z == TestBit(cpsr.top, 4)
        C == TestBit(cpsr.top, 2)
        V == TestBit(cpsr.top, 1)
        taken == arm_jcc_table((cond % 16) - (cond % 2), N, Z, C, V)
    IN  IF cond % 2 = 1 THEN ~taken ELSE taken

(***************************************************************************)
(* can_step_over                                                           *)
(***************************************************************************)

\* an instruction as can_step_over sees it: whether it decoded, what
\* is_call, is_interrupt and modifies_pc say of it, its repeat prefixes
StepInsns ==
    { n \in [valid : BOOLEAN, is_call : BOOLEAN, is_interrupt : BOOLEAN,
             modifies_pc : BOOLEAN,
             prefix : SUBSET {"PREFIX_REP", "PREFIX_REPNE"}] :
        /\ n.is_call => (n.modifies_pc /\ ~n.is_interrupt)
        /\ ~n.valid => (~n.is_call /\ ~n.is_interrupt /\ ~n.modifies_pc
                        /\ n.prefix = {}) }

\* ArchProcessor::can_step_over of arch/x86-generic, lines 1156-1158
x86_can_step_over(inst) ==
    inst.valid /\ (inst.is_call
                   \/ inst.prefix \cap {"PREFIX_REPNE", "PREFIX_REP"} # {})

\* ArchProcessor::can_step_over of arch/arm-generic, lines 302-304
arm_can_step_over(inst) ==
    inst.valid /\ (inst.is_call \/ inst.is_interrupt \/ ~inst.modifies_pc)

(***************************************************************************)
(* x86: is_filling                                                         *)
(***************************************************************************)

\* edb::Operand::Register values the operands draw on
FillRegs == {"X86_REG_EAX", "X86_REG_EBX"}

NoOperand ==
    [valid |-> FALSE, general_type |-> "TYPE_INVALID", reg |-> "X86_REG_INVALID",
     base |-> "X86_REG_INVALID", index |-> "X86_REG_INVALID", scale |-> 1,
     displacement |-> 0]

FillRegisterOperands ==
    [valid : {TRUE}, general_type : {"TYPE_REGISTER"}, reg : FillRegs,
     base : {"X86_REG_INVALID"}, index : {"X86_REG_INVALID"}, scale : {1},
     displacement : {0}]

FillExpressionOperands ==
    [valid : {TRUE}, general_type : {"TYPE_EXPRESSION"},
     reg : {"X86_REG_INVALID"},
     base : FillRegs \cup {"X86_REG_INVALID"},
     index : FillRegs \cup {"X86_REG_INVALID"},
     scale : {1, 2}, displacement : {0, 4}]

FillImmediateOperands ==
    [valid : {TRUE}, general_type : {"TYPE_IMMEDIATE"},
     reg : {"X86_REG_INVALID"}, base : {"X86_REG_INVALID"},
     index : {"X86_REG_INVALID"}, scale : {1}, displacement : {0}]

\* the instructions is_filling is asked about: undecodable single bytes,
\* NOP and INT3, LEA and MOV with their two operands, and ADD, whose
\* encoding 00 00 is the decodable run of zero bytes
FillInsns ==
    [valid : {FALSE}, operation : {"X86_INS_INVALID"},
     op0 : {NoOperand}, op1 : {NoOperand}, bytes : {<<0>>, <<6>>}]
    \cup
    [valid : {TRUE}, operation : {"X86_INS_NOP"},
     op0 : {NoOperand}, op1 : {NoOperand}, bytes : {<<144>>}]
    \cup
    [valid : {TRUE}, operation : {"X86_INS_INT3"},
     op0 : {NoOperand}, op1 : {NoOperand}, bytes : {<<204>>}]
    \cup
    [valid : {TRUE}, operation : {"X86_INS_LEA"},
     op0 : FillRegisterOperands, op1 : FillExpressionOperands,
     bytes : {<<141, 64>>}]
    \cup
    [valid : {TRUE}, operation : {"X86_INS_MOV"},
     op0 : FillRegisterOperands \cup FillExpressionOperands,
     op1 : FillRegisterOperands \cup FillImmediateOperands,
     bytes : {<<137, 192>>}]
    \cup
    [valid : {TRUE}, operation : {"X86_INS_ADD"},
     op0 : {e \in FillExpressionOperands :
              e.base = "X86_REG_EAX" /\ e.index = "X86_REG_INVALID"
              /\ e.scale = 1 /\ e.displacement = 0},
     op1 : {r \in FillRegisterOperands : r.reg = "X86_REG_EAX"},
     bytes : {<<0, 0>>, <<0, 24>>}]

\* an LEA test that ignores the displacement
lea_is_filling_any_disp(op0, op1) ==
    IF op0.valid /\ op1.valid
       /\ op0.general_type = "TYPE_REGISTER"
       /\ op1.general_type = "TYPE_EXPRESSION"
       /\ op1.scale = 1
    THEN IF op1.base = "X86_REG_INVALID" THEN op0.reg = op1.index
         ELSE IF op1.index = "X86_REG_INVALID" THEN op0.reg = op1.base
         ELSE FALSE
    ELSE FALSE

\* is_filling, lines 1181-1203: the X86_INS_LEA case
lea_is_filling(op0, op1) ==
    IF op0.valid /\ op1.valid
       /\ op0.general_type = "TYPE_REGISTER"
       /\ op1.general_type = "TYPE_EXPRESSION"
       /\ op1.scale = 1 /\ op1.displacement = 0
    THEN IF op1.base = "X86_REG_INVALID" THEN op0.reg = op1.index
         ELSE IF op1.index = "X86_REG_INVALID" THEN op0.reg = op1.base
         ELSE FALSE
    ELSE FALSE

\* is_filling, lines 1205-1211: the X86_INS_MOV case
mov_is_filling(op0, op1) ==
    IF op0.valid /\ op1.valid
       /\ op0.general_type = "TYPE_REGISTER"
       /\ op1.general_type = "TYPE_REGISTER"
    THEN op0.reg = op1.reg
    ELSE FALSE

\* ArchProcessor::is_filling of arch/x86-generic, lines 1164-1228
is_filling(inst, zeros_are_filling) ==
    IF inst.valid
    THEN LET byOperation ==
                 CASE inst.operation \in {"X86_INS_NOP", "X86_INS_INT3"} -> TRUE
                   [] inst.operation = "X86_INS_LEA" ->
                        lea_is_filling(inst.op0, inst.op1)
                   [] inst.operation = "X86_INS_MOV" ->
                        mov_is_filling(inst.op0, inst.op1)
                   [] OTHER -> FALSE
         IN  IF ~byOperation /\ zeros_are_filling
             THEN inst.bytes = <<0, 0>>
             ELSE byOperation
    ELSE Len(inst.bytes) = 1 /\ inst.bytes[1] = 0

(***************************************************************************)
(* Argument formatting                                                     *)
(***************************************************************************)

\* mangled type strings: int, char *, void const *, double, none
TypeStrings == {<<"i">>, <<"P", "c">>, <<"P", "K", "v">>, <<"d">>, <<>>}

IntegerTypeChars ==
    {"w", "b", "a", "h", "s", "t", "i", "j", "l", "m", "x", "y", "n", "o"}

\* what a rendered argument is made by: the formatting function, the pointer
\* level and type character handed to it, and the value it formats
Rendered(fn, pointer_level, ch, value) ==
    [fn |-> fn, pointer_level |-> pointer_level, ch |-> ch, value |-> value]

\* QObject::tr("(failed to get value)")
FailedToGetValue == Rendered("(failed to get value)", 0, "", 0)

\* the loop over the characters of the type, lines 99-134 of
\* ArchProcessorCommon.cpp and 270-311 of the x86 ArchProcessor.cpp
RECURSIVE format_by_type(_, _, _, _)
format_by_type(type, k, pointer_level, value) ==
    IF k > Len(type)
    THEN Rendered("format_pointer", pointer_level, "x", value)
    ELSE LET ch == type[k]
         IN  IF ch = "P"
             THEN format_by_type(type, k + 1, pointer_level + 1, value)
             ELSE IF ch \in {"r", "V", "K"}
             THEN format_by_type(type, k + 1, pointer_level, value)
             ELSE IF ch = "v"
             THEN Rendered("format_pointer", pointer_level, ch, value)
             ELSE IF ch = "c"
             THEN Rendered("format_char", pointer_level, ch, value)
             ELSE IF ch \in IntegerTypeChars
             THEN Rendered("format_integer", pointer_level, ch, value)
             ELSE format_by_type(type, k + 1, pointer_level, value)

\* format_argument(type, const Register&) of ArchProcessorCommon.cpp,
\* lines 95-137
format_argument(type, arg) ==
    IF ~arg.valid THEN FailedToGetValue
    ELSE format_by_type(type, 1, 0, arg.value)

\* format_argument(type, edb::reg_t) of the x86 ArchProcessor.cpp,
\* lines 267-314
x86_format_argument(type, arg) == format_by_type(type, 1, 0, arg)

ArgStates == [rdi : {Absent, 0, 5}, rsi : {Absent, 7}]

\* the AMD64 parameter registers the prototypes drawn here reach
parameter_registers == <<"rdi", "rsi">>

\* prototypes of one or two arguments, each a type
Prototypes ==
    {<<t>> : t \in TypeStrings}
    \cup {<<t, u>> : t \in TypeStrings, u \in {<<"i">>, <<"P", "c">>}}

\* resolve_function_parameters, lines 320-374, for a 64-bit debuggee and
\* arguments passed in registers: the rendered arguments
resolve_function_parameters(state, arguments, garbage) ==
    [k \in 1..Len(arguments) |->
        x86_format_argument(arguments[k],
            RegisterOf(state, parameter_registers[k], garbage).value)]

\* the <argument type= register=> elements of a syscalls.xml entry
SyscallArguments ==
    {<<a>> : a \in [type : {<<"i">>, <<"P", "c">>}, register : {"rdi", "rsi"}]}
    \cup {<<a, b>> : a \in [type : {<<"i">>}, register : {"rdi"}],
                     b \in [type : {<<"i">>, <<"P", "c">>}, register : {"rsi"}]}

\* analyze_syscall, lines 693-730: the rendered arguments of the entry
analyze_syscall(state, arguments, garbage) ==
    [k \in 1..Len(arguments) |->
        x86_format_argument(arguments[k].type,
            RegisterOf(state, arguments[k].register, garbage).value)]

ArchInit == ArchIdle /\ RelayIdle /\ NavIdle /\ CoreIdle /\ ViewIdle

\* a request is analysed from the idle state only; its inputs are drawn here
X86EffectiveAddress ==
    /\ arch_op = "none"
    /\ \E op \in X86Operands, owner \in X86Owners, state \in X86States,
          garbage \in GarbageVals :
        /\ arch_in' = [op |-> op, owner |-> owner, state |-> state,
                       garbage |-> garbage]
        /\ arch_out' = x86_get_effective_address(op, owner, state, garbage)
    /\ arch_op' = "x86_ea"
    /\ UNCHANGED <<relayVars, navVars, coreVars, viewVars>>

ArmEffectiveAddress ==
    /\ arch_op = "none"
    /\ \E insn \in ARMInsns, operand \in ARMOperands, state \in ARMStates,
          cpuMode \in CPUModes :
        /\ arch_in' = [insn |-> insn, operand |-> operand, state |-> state,
                       cpuMode |-> cpuMode]
        /\ arch_out' = arm_get_effective_address(insn, operand, state,
                                                 cpuMode)
    /\ arch_op' = "arm_ea"
    /\ UNCHANGED <<relayVars, navVars, coreVars, viewVars>>

\* get_effective_address(inst, op, state, bool& ok), lines 218-224
arm_get_effective_address_ok(insn, operand, state, cpuMode) ==
    LET result == arm_get_effective_address(insn, operand, state, cpuMode)
    IN  [ok |-> FALSE,
         value |-> IF ~result.ok THEN 0 ELSE result.value]

ArmEffectiveAddressOk ==
    /\ arch_op = "none"
    /\ \E insn \in ARMInsns, operand \in ARMOperands, state \in ARMStates,
          cpuMode \in CPUModes :
        /\ arch_in' = [insn |-> insn, operand |-> operand, state |-> state,
                       cpuMode |-> cpuMode]
        /\ arch_out' = arm_get_effective_address_ok(insn, operand, state,
                                                    cpuMode)
    /\ arch_op' = "arm_ea_ok"
    /\ UNCHANGED <<relayVars, navVars, coreVars, viewVars>>

X86JccTaken ==
    /\ arch_op = "none"
    /\ \E rcx \in RcxVals, flags \in FlagVals, noise \in EflNoise,
          cond \in ConditionCodes :
        /\ arch_in' = [rcx |-> rcx, flags |-> flags,
                       efl |-> EflOf(flags, noise), cond |-> cond]
        /\ arch_out' = x86_is_jcc_taken(rcx, EflOf(flags, noise), cond)
    /\ arch_op' = "x86_jcc"
    /\ UNCHANGED <<relayVars, navVars, coreVars, viewVars>>

ArmJccTaken ==
    /\ arch_op = "none"
    /\ \E flags \in ArmFlagVals, low \in CpsrLow, cond \in ArmConditionCodes :
        /\ arch_in' = [flags |-> flags, cpsr |-> CpsrOf(flags, low),
                       cond |-> cond]
        /\ arch_out' = arm_is_jcc_taken(CpsrOf(flags, low), cond)
    /\ arch_op' = "arm_jcc"
    /\ UNCHANGED <<relayVars, navVars, coreVars, viewVars>>

X86CanStepOver ==
    /\ arch_op = "none"
    /\ \E inst \in StepInsns :
        /\ arch_in' = [inst |-> inst]
        /\ arch_out' = x86_can_step_over(inst)
    /\ arch_op' = "x86_step_over"
    /\ UNCHANGED <<relayVars, navVars, coreVars, viewVars>>

ArmCanStepOver ==
    /\ arch_op = "none"
    /\ \E inst \in StepInsns :
        /\ arch_in' = [inst |-> inst]
        /\ arch_out' = arm_can_step_over(inst)
    /\ arch_op' = "arm_step_over"
    /\ UNCHANGED <<relayVars, navVars, coreVars, viewVars>>

X86IsFilling ==
    /\ arch_op = "none"
    /\ \E inst \in FillInsns, zeros_are_filling \in BOOLEAN :
        /\ arch_in' = [inst |-> inst, zeros_are_filling |-> zeros_are_filling]
        /\ arch_out' = is_filling(inst, zeros_are_filling)
    /\ arch_op' = "x86_is_filling"
    /\ UNCHANGED <<relayVars, navVars, coreVars, viewVars>>

FormatArgument ==
    /\ arch_op = "none"
    /\ \E type \in TypeStrings, state \in ArgStates, garbage \in GarbageVals :
        /\ arch_in' = [type |-> type, state |-> state, garbage |-> garbage]
        /\ arch_out' = format_argument(type, RegisterOf(state, "rdi", garbage))
    /\ arch_op' = "format_argument"
    /\ UNCHANGED <<relayVars, navVars, coreVars, viewVars>>

ResolveFunctionParameters ==
    /\ arch_op = "none"
    /\ \E arguments \in Prototypes, state \in ArgStates,
          garbage \in GarbageVals :
        /\ arch_in' = [arguments |-> arguments, state |-> state,
                       garbage |-> garbage]
        /\ arch_out' = resolve_function_parameters(state, arguments, garbage)
    /\ arch_op' = "resolve_function_parameters"
    /\ UNCHANGED <<relayVars, navVars, coreVars, viewVars>>

AnalyzeSyscall ==
    /\ arch_op = "none"
    /\ \E arguments \in SyscallArguments, state \in ArgStates,
          garbage \in GarbageVals :
        /\ arch_in' = [arguments |-> arguments, state |-> state,
                       garbage |-> garbage]
        /\ arch_out' = analyze_syscall(state, arguments, garbage)
    /\ arch_op' = "analyze_syscall"
    /\ UNCHANGED <<relayVars, navVars, coreVars, viewVars>>

\* ---- FloatX.cpp: special values, readFloat and floatType ----
\* values are kept as their bytes in memory order (least significant first)
FloatTypes == {"float", "double"}

\* SpecialValues<double>, lines 32-41, and SpecialValues<float>, lines 43-52
SpecialValues(Float) ==
    IF Float = "double"
    THEN [positiveInf  |-> <<0, 0, 0, 0, 0, 0, 240, 127>>,
          negativeInf  |-> <<0, 0, 0, 0, 0, 0, 240, 255>>,
          positiveSNaN |-> <<0, 0, 0, 0, 0, 0, 252, 127>>,
          negativeSNaN |-> <<0, 0, 0, 0, 0, 0, 252, 255>>,
          positiveQNaN |-> <<0, 0, 0, 0, 0, 0, 248, 127>>,
          negativeQNaN |-> <<0, 0, 0, 0, 0, 0, 248, 255>>]
    ELSE [positiveInf  |-> <<0, 0, 128, 127>>,
          negativeInf  |-> <<0, 0, 128, 255>>,
          positiveSNaN |-> <<0, 0, 224, 127>>,
          negativeSNaN |-> <<0, 0, 224, 255>>,
          positiveQNaN |-> <<0, 0, 192, 127>>,
          negativeQNaN |-> <<0, 0, 192, 255>>]

\* the value 0 readFloat returns for text it does not accept
FloatZero(Float) ==
    IF Float = "double" THEN <<0, 0, 0, 0, 0, 0, 0, 0>> ELSE <<0, 0, 0, 0>>

\* the texts handed to readFloat
FloatInputs ==
    {"snan", "+snan", "-snan", "qnan", "+qnan", "nan", "-qnan", "inf",
     "+inf", "-inf", " SNaN ", "-QNAN", " Inf", "1.5", "-2", "abc", ""}

\* strInput.toLower().trimmed(), line 103, on the texts of FloatInputs
toLowerTrimmed(strInput) ==
    CASE strInput = " SNaN " -> "snan"
      [] strInput = "-QNAN" -> "-qnan"
      [] strInput = " Inf" -> "inf"
      [] OTHER -> strInput

\* util::fullStringToFloat, called at line 104: the results the number parser
\* can give; <<>> stands for no value.  Ordinary numbers always parse; the
\* texts a C library parser also knows (inf, nan) may or may not parse, and
\* then give the standard infinity or quiet NaN.
fullStringToFloat(Float, str) ==
    CASE str = "1.5" ->
           {IF Float = "double" THEN <<<<0, 0, 0, 0, 0, 0, 248, 63>>>>
                                ELSE <<<<0, 0, 192, 63>>>>}
      [] str = "-2" ->
           {IF Float = "double" THEN <<<<0, 0, 0, 0, 0, 0, 0, 192>>>>
                                ELSE <<<<0, 0, 0, 192>>>>}
      [] str \in {"inf", "+inf"} ->
           {<<>>, <<SpecialValues(Float).positiveInf>>}
      [] str = "-inf" -> {<<>>, <<SpecialValues(Float).negativeInf>>}
      [] str = "nan" -> {<<>>, <<SpecialValues(Float).positiveQNaN>>}
      [] OTHER -> {<<>>}

\* readFloat, lines 99-129; parsed is the result of fullStringToFloat
readFloat(Float, strInput, parsed) ==
    LET str == toLowerTrimmed(strInput)
        sv  == SpecialValues(Float)
    IN  IF parsed # <<>> THEN [ok |-> TRUE, value |-> parsed[1]]
        ELSE IF str = "+snan" \/ str = "snan"
             THEN [ok |-> TRUE, value |-> sv.positiveSNaN]
        ELSE IF str = "-snan"
             THEN [ok |-> TRUE, value |-> sv.negativeSNaN]
        ELSE IF str = "+qnan" \/ str = "qnan" \/ str = "nan"
             THEN [ok |-> TRUE, value |-> sv.positiveQNaN]
        ELSE IF str = "-qnan"
             THEN [ok |-> TRUE, value |-> sv.negativeQNaN]
        ELSE IF str = "+inf" \/ str = "inf"
             THEN [ok |-> TRUE, value |-> sv.positiveInf]
        ELSE IF str = "-inf"
             THEN [ok |-> TRUE, value |-> sv.negativeInf]
        ELSE [ok |-> FALSE, value |-> FloatZero(Float)]

\* bit n of a value held as bytes
BitOf(value, n) == (value[(n \div 8) + 1] \div Pow2(n % 8)) % 2

\* detail::ieeeClassify, lines 143-167
ieeeClassify(mantissaLength, value) ==
    LET top       == 8 * Len(value) - 2
        expAllSet == \A n \in mantissaLength..top : BitOf(value, n) = 1
        expZero   == \A n \in mantissaLength..top : BitOf(value, n) = 0
        mantZero  == \A n \in 0..(mantissaLength - 1) : BitOf(value, n) = 0
        quietBit  == BitOf(value, mantissaLength - 1) = 1
    IN  IF expAllSet
        THEN IF mantZero THEN "Infinity"
             ELSE IF quietBit THEN "QNaN" ELSE "SNaN"
        ELSE IF expZero
             THEN IF mantZero THEN "Zero" ELSE "Denormal"
             ELSE "Normal"

\* floatType(edb::value32), lines 170-173, and floatType(edb::value64),
\* lines 175-178
floatType(value) ==
    IF Len(value) = 4 THEN ieeeClassify(23, value)
                      ELSE ieeeClassify(52, value)

\* the sign bit of a value
SignBit(value) == BitOf(value, 8 * Len(value) - 1)

ReadFloat ==
    /\ arch_op = "none"
    /\ \E Float \in FloatTypes, strInput \in FloatInputs :
         \E parsed \in fullStringToFloat(Float, toLowerTrimmed(strInput)) :
            /\ arch_in' = [Float |-> Float, strInput |-> strInput,
                           parsed |-> parsed]
            /\ arch_out' = readFloat(Float, strInput, parsed)
    /\ arch_op' = "readFloat"
    /\ UNCHANGED <<relayVars, navVars, coreVars, viewVars>>

ArchNext ==
    \/ X86EffectiveAddress
    \/ ArmEffectiveAddress
    \/ ArmEffectiveAddressOk
    \/ X86JccTaken
    \/ ArmJccTaken
    \/ X86CanStepOver
    \/ ArmCanStepOver
    \/ X86IsFilling
    \/ FormatArgument
    \/ ResolveFunctionParameters
    \/ AnalyzeSyscall
    \/ ReadFloat

SpecArch == ArchInit /\ [][ArchNext]_vars

(***************************************************************************)
(* Properties of the architecture processors                               *)
(***************************************************************************)

Resolved(state, name) == name \in DOMAIN state /\ state[name] # Absent

\* the registers an x86 operand refers to, segment bases included
X86Referenced(op, owner) ==
    LET segs == (IF "PREFIX_GS" \in owner.prefix THEN {"gs_base"} ELSE {})
                \cup (IF "PREFIX_FS" \in owner.prefix THEN {"fs_base"} ELSE {})
    IN  IF ~op.valid THEN {}
        ELSE IF op.general_type = "TYPE_REGISTER" THEN {op.reg}
        ELSE IF op.general_type = "TYPE_EXPRESSION"
             THEN ({op.base, op.index} \ {"none"}) \cup segs
        ELSE IF op.general_type = "TYPE_ABSOLUTE" THEN segs
        ELSE {}

\* the general-purpose registers an ARM operand refers to
ARMReferenced(operand) ==
    IF ~operand.valid THEN {}
    ELSE IF operand.type = "register" THEN {operand.reg} \cap {"r1", "r2", "r15"}
    ELSE IF operand.type = "expression"
         THEN {operand.base, operand.index} \cap {"r1", "r2", "r15"}
    ELSE {}

\* C7: on both architectures the effective-address computation reports
\* failure whenever a register the operand refers to (the operand register,
\* the base or index of a memory expression, the FS/GS base a prefix asks
\* for) cannot be resolved from the register state.
C7_UnresolvedFails ==
    /\ arch_op = "x86_ea" =>
         ((\E n \in X86Referenced(arch_in.op, arch_in.owner) :
              ~Resolved(arch_in.state, n))
          => ~arch_out.ok)
    /\ arch_op = "arm_ea" =>
         ((\E n \in ARMReferenced(arch_in.operand) :
              ~Resolved(arch_in.state, n))
          => ~arch_out.ok)

\* C8: for an x86 memory operand with base RIP and no index, the effective
\* address is the instruction's own address + its length + the
\* displacement, whatever instruction pointer the register state holds.
C8_RipRelative ==
    (/\ arch_op = "x86_ea"
     /\ arch_in.op.valid
     /\ arch_in.op.general_type = "TYPE_EXPRESSION"
     /\ arch_in.op.base = "rip"
     /\ arch_in.op.index = "none"
     /\ arch_in.owner.prefix = {}
     /\ Resolved(arch_in.state, "rip"))
    => /\ arch_out.ok
       /\ arch_out.ret = arch_in.owner.rva + arch_in.owner.size
                         + arch_in.op.disp

\* the ARM operand whose operand register or base register is R15
R15Used(operand) ==
    /\ operand.valid
    /\ \/ operand.type = "register" /\ operand.reg = "r15"
       \/ operand.type = "expression" /\ operand.base = "r15"

PcOffset(cpuMode) == IF cpuMode = "ARM32" THEN 8 ELSE 4

\* the index register's share of an ARM memory expression
IndexTerm(operand, state) ==
    IF operand.type = "expression" /\ Resolved(state, operand.index)
    THEN operand.scale * shift(state[operand.index], operand.shift.type,
                               operand.shift.value)
    ELSE 0

\* C9: when the operand register or the base register is R15 the value used
\* for it is the instruction's address + 8 (ARM32) or + 4 (Thumb), not the
\* R15 of the register state; in any other CPU mode the computation fails;
\* when R15 is not used that way the CPU mode does not change the result.
C9_PcAdjustment ==
    arch_op = "arm_ea" =>
      /\ (R15Used(arch_in.operand) /\ arch_out.ok) =>
           /\ arch_in.cpuMode \in {"ARM32", "Thumb"}
           /\ arch_out.value =
                arch_in.insn.rva + PcOffset(arch_in.cpuMode)
                + (IF arch_in.operand.type = "expression"
                   THEN arch_in.operand.disp ELSE 0)
                + IndexTerm(arch_in.operand, arch_in.state)
      /\ (R15Used(arch_in.operand)
          /\ arch_in.cpuMode \notin {"ARM32", "Thumb"}) => ~arch_out.ok
      /\ ~R15Used(arch_in.operand) =>
           \A m \in CPUModes :
              arm_get_effective_address(arch_in.insn, arch_in.operand,
                                        arch_in.state, m) = arch_out

\* ARM32, instruction at 0x2000, base PC, displacement 0, while the state's
\* R15 is elsewhere: the address is 0x2008
C9_Witness ==
    /\ arch_op = "arm_ea"
    /\ arch_in.operand.type = "expression"
    /\ arch_in.operand.base = "r15"
    /\ arch_in.operand.index = "invalid"
    /\ arch_in.operand.disp = 0
    /\ arch_in.cpuMode = "ARM32"
    /\ arch_in.insn.rva = 8192
    /\ arch_in.state.r15 = 12288
    /\ arch_out.ok
    /\ arch_out.value = 8200

\* the conditional-branch truth table of the architecture, by mnemonic
JccTruth(cond, f) ==
    CASE cond = 0  -> f.of                          \* O
      [] cond = 1  -> ~f.of                         \* NO
      [] cond = 2  -> f.cf                          \* B
      [] cond = 3  -> ~f.cf                         \* AE
      [] cond = 4  -> f.zf                          \* E
      [] cond = 5  -> ~f.zf                         \* NE
      [] cond = 6  -> f.cf \/ f.zf                  \* BE
      [] cond = 7  -> ~f.cf /\ ~f.zf                \* A
      [] cond = 8  -> f.sf                          \* S
      [] cond = 9  -> ~f.sf                         \* NS
      [] cond = 10 -> f.pf                          \* P
      [] cond = 11 -> ~f.pf                         \* NP
      [] cond = 12 -> f.sf # f.of                   \* L
      [] cond = 13 -> f.sf = f.of                   \* GE
      [] cond = 14 -> f.zf \/ (f.sf # f.of)         \* LE
      [] cond = 15 -> ~f.zf /\ (f.sf = f.of)        \* G

\* C10: is_jcc_taken equals the truth table for the 16 condition codes and
\* all flag values, each odd code negates the even code before it, and
\* CXZ / ECXZ / RCXZ are taken exactly when the low 16 / 32 / 64 bits of
\* the counter register are zero, whatever the flags.
C10_TruthTable ==
    arch_op = "x86_jcc" =>
      /\ arch_in.cond \in 0..15 =>
           arch_out = JccTruth(arch_in.cond, arch_in.flags)
      /\ (arch_in.cond \in 0..15 /\ arch_in.cond % 2 = 0) =>
           arch_out = ~x86_is_jcc_taken(arch_in.rcx, arch_in.efl,
                                        arch_in.cond + 1)
      /\ arch_in.cond = CC_CXZ => (arch_out <=> arch_in.rcx.w0 = 0)
      /\ arch_in.cond = CC_ECXZ =>
           (arch_out <=> (arch_in.rcx.w0 = 0 /\ arch_in.rcx.w1 = 0))
      /\ arch_in.cond = CC_RCXZ =>
           (arch_out <=> (arch_in.rcx.w0 = 0 /\ arch_in.rcx.w1 = 0
                          /\ arch_in.rcx.hi = 0))

\* "below or equal" taken on the carry alone, and ECXZ not taken although
\* the low 16 bits of the counter are zero
C10_Witness ==
    /\ arch_op = "x86_jcc"
    /\ \/ /\ arch_in.cond = 6
          /\ arch_in.flags.cf /\ ~arch_in.flags.zf
          /\ arch_out = TRUE
       \/ /\ arch_in.cond = CC_ECXZ
          /\ arch_in.rcx.w0 = 0 /\ arch_in.rcx.w1 = 1
          /\ arch_in.flags.zf
          /\ arch_out = FALSE

\* the ARM condition table, by mnemonic
ArmTruth(cond, f) ==
    CASE cond = 0  -> f.Z                           \* EQ
      [] cond = 1  -> ~f.Z                          \* NE
      [] cond = 2  -> f.C                           \* HS
      [] cond = 3  -> ~f.C                          \* LO
      [] cond = 4  -> f.N                           \* MI
      [] cond = 5  -> ~f.N                          \* PL
      [] cond = 6  -> f.V                           \* VS
      [] cond = 7  -> ~f.V                          \* VC
      [] cond = 8  -> f.C /\ ~f.Z                   \* HI
      [] cond = 9  -> ~f.C \/ f.Z                   \* LS
      [] cond = 10 -> f.N = f.V                     \* GE
      [] cond = 11 -> f.N # f.V                     \* LT
      [] cond = 12 -> ~f.Z /\ (f.N = f.V)           \* GT
      [] cond = 13 -> f.Z \/ (f.N # f.V)            \* LE
      [] cond = 14 -> TRUE                          \* always
      [] cond = 15 -> FALSE                         \* never

\* C11: the ARM is_jcc_taken equals the ARM condition table for the 16
\* codes and all values of N, Z, C, V; each of the codes 0..13 is true for
\* some flags and false for others, 14 is always true, 15 always false.
C11_ArmTruthTable ==
    arch_op = "arm_jcc" =>
      /\ arch_out = ArmTruth(arch_in.cond, arch_in.flags)
      /\ arch_in.cond = 14 => arch_out
      /\ arch_in.cond = 15 => ~arch_out
      /\ arch_in.cond \in 0..13 =>
           /\ \E f \in ArmFlagVals, low \in CpsrLow :
                arm_is_jcc_taken(CpsrOf(f, low), arch_in.cond)
           /\ \E f \in ArmFlagVals, low \in CpsrLow :
                ~arm_is_jcc_taken(CpsrOf(f, low), arch_in.cond)

\* "higher" taken with the carry set and the zero flag clear, the other
\* CPSR bits all set
C11_Witness ==
    /\ arch_op = "arm_jcc"
    /\ arch_in.cond = 8
    /\ arch_in.flags.C /\ ~arch_in.flags.Z
    /\ arch_in.cpsr.low = 268435455
    /\ arch_out = TRUE

\* C12: can_step_over is true for every valid call and every valid
\* interrupt instruction on both architectures, true on x86 for a REP/REPNE
\* prefix and on ARM for an instruction that does not modify the program
\* counter, and false for every instruction that failed to decode.
C12_CanStepOver ==
    /\ arch_op = "x86_step_over" =>
         /\ (arch_in.inst.valid
             /\ (arch_in.inst.is_call \/ arch_in.inst.is_interrupt))
            => arch_out
         /\ (arch_in.inst.valid /\ arch_in.inst.prefix # {}) => arch_out
         /\ ~arch_in.inst.valid => ~arch_out
    /\ arch_op = "arm_step_over" =>
         /\ (arch_in.inst.valid
             /\ (arch_in.inst.is_call \/ arch_in.inst.is_interrupt))
            => arch_out
         /\ (arch_in.inst.valid /\ ~arch_in.inst.modifies_pc) => arch_out
         /\ ~arch_in.inst.valid => ~arch_out

\* LEA r, [r]: displacement 0, scale 1, r the only address register
LeaSelf(op0, op1) ==
    /\ op0.valid /\ op0.general_type = "TYPE_REGISTER"
    /\ op1.valid /\ op1.general_type = "TYPE_EXPRESSION"
    /\ op1.displacement = 0 /\ op1.scale = 1
    /\ \/ op1.base = op0.reg /\ op1.index = "X86_REG_INVALID"
       \/ op1.index = op0.reg /\ op1.base = "X86_REG_INVALID"

\* MOV between two identical registers
MovSelf(op0, op1) ==
    /\ op0.valid /\ op0.general_type = "TYPE_REGISTER"
    /\ op1.valid /\ op1.general_type = "TYPE_REGISTER"
    /\ op0.reg = op1.reg

\* C13: is_filling is true for NOP, for MOV between two identical
\* registers and for LEA r,[r] (displacement 0, scale 1, r the only address
\* register); it is false for a valid MOV or LEA of any other form when
\* the zero-bytes option is off.
C13_FillerForms ==
    (arch_op = "x86_is_filling" /\ arch_in.inst.valid) =>
      /\ arch_in.inst.operation = "X86_INS_NOP" => arch_out
      /\ arch_in.inst.operation = "X86_INS_MOV" =>
           /\ MovSelf(arch_in.inst.op0, arch_in.inst.op1) => arch_out
           /\ (~MovSelf(arch_in.inst.op0, arch_in.inst.op1)
               /\ ~arch_in.zeros_are_filling) => ~arch_out
      /\ arch_in.inst.operation = "X86_INS_LEA" =>
           /\ LeaSelf(arch_in.inst.op0, arch_in.inst.op1) => arch_out
           /\ (~LeaSelf(arch_in.inst.op0, arch_in.inst.op1)
               /\ ~arch_in.zeros_are_filling) => ~arch_out

\* lea ebx, [ebx] through the index register is a filler
C13_Witness ==
    /\ arch_op = "x86_is_filling"
    /\ arch_in.inst.operation = "X86_INS_LEA"
    /\ arch_in.inst.op0.reg = "X86_REG_EBX"
    /\ arch_in.inst.op1.index = "X86_REG_EBX"
    /\ arch_in.inst.op1.base = "X86_REG_INVALID"
    /\ arch_in.inst.op1.scale = 1
    /\ arch_in.inst.op1.displacement = 0
    /\ arch_out = TRUE

ZeroBytes(bytes) == \A k \in 1..Len(bytes) : bytes[k] = 0

\* C14: with zeros_are_filling off, bytes that are all zero are never a
\* filler, whether they decode or not; with the option on they are.
C14_ZerosOnlyOptional ==
    (arch_op = "x86_is_filling" /\ ZeroBytes(arch_in.inst.bytes)) =>
      (arch_out <=> arch_in.zeros_are_filling)

\* C15: an argument whose register cannot be resolved from the register
\* state is rendered as the failure marker, by the shared format_argument
\* and by the x86 resolve_function_parameters and analyze_syscall.
C15_FailureMarker ==
    /\ arch_op = "format_argument" =>
         (~Resolved(arch_in.state, "rdi") => arch_out = FailedToGetValue)
    /\ arch_op = "resolve_function_parameters" =>
         \A k \in 1..Len(arch_in.arguments) :
            ~Resolved(arch_in.state, parameter_registers[k])
            => arch_out[k] = FailedToGetValue
    /\ arch_op = "analyze_syscall" =>
         \A k \in 1..Len(arch_in.arguments) :
            ~Resolved(arch_in.state, arch_in.arguments[k].register)
            => arch_out[k] = FailedToGetValue

(***************************************************************************)
(*                  DEBUGGER CORE: PROCESS LAUNCH                          *)
(***************************************************************************)

\* program paths as UTF-16 code units: "/a" and "/" followed by U+00E9
Paths == {<<47, 97>>, <<47, 233>>}

Cwds == {"/tmp", "/missing"}

\* argument lists, each argument a QByteArray: none, "-x", "-x" "b"
ArgLists == {<<>>, <<(<<45, 120>>)>>, <<(<<45, 120>>), (<<98>>)>>}

\* QString::toLocal8Bit under a UTF-8 locale, for code units below 0x800
RECURSIVE toLocal8Bit(_)
toLocal8Bit(str) ==
    IF str = <<>> THEN <<>>
    ELSE LET c == Head(str)
         IN  (IF c < 128 THEN <<c>>
              ELSE <<192 + (c \div 64), 128 + (c % 64)>>)
             \o toLocal8Bit(Tail(str))

\* the C string that starts a byte array: the bytes before the first NUL
RECURSIVE CString(_)
CString(bytes) ==
    IF bytes = <<>> \/ Head(bytes) = 0 THEN <<>>
    ELSE <<Head(bytes)>> \o CString(Tail(bytes))

\* an entry of argv_pointers
CStr(bytes) == [null |-> FALSE, str |-> bytes]
NullPtr == [null |-> TRUE, str |-> <<>>]

\* lines 343-358: argv_pointers when every strcpy stays inside its buffer
argv_pointers(path, args) ==
    <<CStr(CString(toLocal8Bit(path)))>>
    \o [k \in 1..Len(args) |-> CStr(CString(args[k]))]
    \o <<NullPtr>>

\* lines 347-348: new char[path.length() + 1] receives the local 8-bit
\* encoding of path and its terminator
path_copy_fits(path) == Len(toLocal8Bit(path)) + 1 <= Len(path) + 1

\* what the heap overflow of the path copy can leave behind: the vector as
\* intended, or one whose first string was overwritten by a later allocation
overflowed_argv(path, args) ==
    {argv_pointers(path, args),
     [argv_pointers(path, args) EXCEPT ![1] =
         CStr(SubSeq(toLocal8Bit(path), 1, Len(path)))]}

\* QString errorString = "internal error", line 337
InternalError ==
    [text |-> "internal error", step |-> "none", reason |-> "none"]

\* tr("execv() failed: %1").arg(strerror(errno)), line 370
ExecvFailed(errno) ==
    [text |-> "execv() failed: %1", step |-> "execv", reason |-> errno]

\* Status(errorString): a Status built from a message is a failure
Status(errorString) == [success |-> FALSE, error |-> errorString]

ChdirResults == {[ret |-> 0, errno |-> "none"], [ret |-> -1, errno |-> "ENOENT"]}

\* execv either replaces the image or returns -1
ExecvResults ==
    {[ret |-> 0, errno |-> "none"], [ret |-> -1, errno |-> "ENOENT"],
     [ret |-> -1, errno |-> "EACCES"]}

SysCall(call, file, argv, r) ==
    [call |-> call, file |-> file, argv |-> argv, ret |-> r.ret,
     errno |-> r.errno]

CoreInit == CoreIdle /\ RelayIdle /\ NavIdle /\ ArchIdle /\ ViewIdle

\* execute_process is entered, lines 335-337
ExecuteProcessCall ==
    /\ core_op = "none"
    /\ \E path \in Paths, cwd \in Cwds, args \in ArgLists :
         core_frame' = [path |-> path, cwd |-> cwd, args |-> args,
                        errorString |-> InternalError, argv |-> <<>>]
    /\ core_op' = "execute_process"
    /\ core_pc' = "chdir"
    /\ core_log' = <<>>
    /\ core_out' = <<>>
    /\ UNCHANGED <<sigchld_action, relayVars, navVars, archVars, viewVars>>

\* ::chdir(qPrintable(cwd)) == 0, line 340
ExecuteChdir ==
    /\ core_op = "execute_process"
    /\ core_pc = "chdir"
    /\ \E r \in ChdirResults :
        /\ core_log' = Append(core_log,
                              SysCall("chdir", core_frame.cwd, <<>>, r))
        /\ core_pc' = IF r.ret = 0 THEN "argv" ELSE "return"
    /\ UNCHANGED <<sigchld_action, core_op, core_frame, core_out, relayVars, navVars,
                   archVars, viewVars>>

\* lines 343-358: the argument vector is allocated and filled
ExecuteBuildArgv ==
    /\ core_op = "execute_process"
    /\ core_pc = "argv"
    /\ IF path_copy_fits(core_frame.path)
       THEN /\ core_frame' = [core_frame EXCEPT !.argv =
                                 argv_pointers(core_frame.path,
                                               core_frame.args)]
            /\ core_pc' = "execv"
       ELSE \/ /\ \E v \in overflowed_argv(core_frame.path, core_frame.args) :
                    core_frame' = [core_frame EXCEPT !.argv = v]
               /\ core_pc' = "execv"
            \/ /\ core_pc' = "aborted"
               /\ UNCHANGED core_frame
    /\ UNCHANGED <<sigchld_action, core_op, core_log, core_out, relayVars, navVars, archVars, viewVars>>

\* execv(argv_pointers[0], argv_pointers) and the ret == -1 branch,
\* lines 363-376
ExecuteExecv ==
    /\ core_op = "execute_process"
    /\ core_pc = "execv"
    /\ \E r \in ExecvResults :
        /\ core_log' = Append(core_log,
                              SysCall("execv", core_frame.argv[1].str,
                                      core_frame.argv, r))
        /\ IF r.ret = -1
           THEN /\ core_frame' = [core_frame EXCEPT
                                    !.errorString = ExecvFailed(r.errno),
                                    !.argv = <<>>]
                /\ core_pc' = "return"
           ELSE /\ core_pc' = "replaced"
                /\ UNCHANGED core_frame
    /\ UNCHANGED <<sigchld_action, core_op, core_out, relayVars, navVars, archVars, viewVars>>

\* return Status(errorString), line 380
ExecuteReturn ==
    /\ core_op = "execute_process"
    /\ core_pc = "return"
    /\ core_out' = <<Status(core_frame.errorString)>>
    /\ core_pc' = "done"
    /\ UNCHANGED <<sigchld_action, core_op, core_frame, core_log, relayVars, navVars,
                   archVars, viewVars>>

(***************************************************************************)
(* DebuggerCoreUNIX::DebuggerCoreUNIX, self-pipe build                     *)
(***************************************************************************)

\* ::pipe either fills selfpipe with two descriptors or fails and leaves
\* the zero-initialised array alone
PipeResults == {[ret |-> 0, errno |-> "none"], [ret |-> -1, errno |-> "EMFILE"]}

\* sigaction for SIGCHLD with valid pointers
SigactionResults == {[ret |-> 0, errno |-> "none"]}

\* how many DebuggerCoreUNIX objects one behaviour constructs at most
MaxConstructions == 2

\* the SIGCHLD action QProcess leaves behind when it hooks the signal
QtActions == [sa_flags : {{}, {"SA_SIGINFO"}}, handler : {"prev_handler"}]

\* what sigaction installs, lines 316-321
new_action ==
    [sa_flags |-> {"SA_RESTART", "SA_SIGINFO"}, handler |-> "sigchld_handler"]

\* the constructor is entered and starts a QProcess, lines 306-307; the
\* first QProcess of the process may hook SIGCHLD
ConstructCall ==
    /\ \/ core_op = "none"
       \/ /\ core_op = "DebuggerCoreUNIX"
          /\ core_pc = "constructed"
          /\ core_frame.n < MaxConstructions
    /\ core_frame' = [selfpipe |-> <<0, 0>>, r |-> 0, nonblocking |-> {},
                      installed |-> FALSE,
                      n |-> IF core_op = "none" THEN 1
                                               ELSE core_frame.n + 1]
    /\ \E q \in QtActions \cup {sigchld_action} :
         sigchld_action' = IF core_op = "none" THEN q ELSE sigchld_action
    /\ core_op' = "DebuggerCoreUNIX"
    /\ core_pc' = "pipe"
    /\ core_log' = <<>>
    /\ core_out' = <<>>
    /\ UNCHANGED <<relayVars, navVars, archVars, viewVars>>

\* int r = ::pipe(selfpipe); Q_UNUSED(r); lines 309-310
ConstructPipe ==
    /\ core_op = "DebuggerCoreUNIX"
    /\ core_pc = "pipe"
    /\ \E r \in PipeResults :
        /\ core_log' = Append(core_log, SysCall("pipe", "selfpipe", <<>>, r))
        /\ core_frame' = [core_frame EXCEPT
                            !.r = r.ret,
                            !.selfpipe = IF r.ret = 0 THEN <<3, 4>>
                                         ELSE core_frame.selfpipe]
    /\ core_pc' = "fcntl"
    /\ UNCHANGED <<sigchld_action, core_op, core_out, relayVars, navVars, archVars, viewVars>>

\* the two fcntl(F_SETFL, ... | O_NONBLOCK) calls, lines 312-313
ConstructFcntl ==
    /\ core_op = "DebuggerCoreUNIX"
    /\ core_pc = "fcntl"
    /\ core_frame' = [core_frame EXCEPT
                        !.nonblocking = {core_frame.selfpipe[1],
                                         core_frame.selfpipe[2]}]
    /\ core_pc' = "sigaction"
    /\ UNCHANGED <<sigchld_action, core_op, core_log, core_out, relayVars, navVars, archVars, viewVars>>

\* sigaction(SIGCHLD, &new_action, &old_action), lines 316-323, and the
\* end of the constructor
ConstructSigaction ==
    /\ core_op = "DebuggerCoreUNIX"
    /\ core_pc = "sigaction"
    /\ \E r \in SigactionResults :
        /\ core_log' = Append(core_log,
                              SysCall("sigaction", "SIGCHLD", <<>>, r))
        /\ core_frame' = [core_frame EXCEPT !.installed = (r.ret = 0)]
        /\ old_action' = IF r.ret = 0 THEN sigchld_action ELSE old_action
        /\ sigchld_action' = IF r.ret = 0 THEN new_action ELSE sigchld_action
    /\ core_pc' = "constructed"
    /\ core_out' = <<"constructed">>
    /\ UNCHANGED <<selfpipe, hpc, hargs, hlog, wpc, msecs, elapsed, sel, rd,
                   ret, spc, pending, sig_r, sret>>
    /\ UNCHANGED <<core_op, navVars, archVars, viewVars>>

(***************************************************************************)
(* native::read, native::write, native::select, native::waitpid            *)
(***************************************************************************)

MaxInterrupts == 2

NativeFunctions == {"read", "write", "select", "waitpid"}

\* what one underlying call leaves in ret and errno; errno keeps its old
\* value when the call succeeds
NativeResults ==
    {[ret |-> 1, errno |-> "none"], [ret |-> 0, errno |-> "none"],
     [ret |-> 1, errno |-> "EINTR"],
     [ret |-> -1, errno |-> "EINTR"], [ret |-> -1, errno |-> "EAGAIN"]}

\* a loop that gives up at once
native_retries_never(r) == FALSE

\* while(ret == -1 && errno == EINTR), lines 201, 213, 225, 237
native_retries(r) == r.ret = -1 /\ r.errno = "EINTR"

Interrupts(log) ==
    Cardinality({k \in 1..Len(log) : log[k].ret = -1 /\ log[k].errno = "EINTR"})

NativeCall ==
    /\ core_op = "none"
    /\ \E fn \in NativeFunctions :
         /\ core_op' = "native"
         /\ core_frame' = [fn |-> fn, ret |-> 0, errno |-> "none"]
    /\ core_pc' = "call"
    /\ core_log' = <<>>
    /\ core_out' = <<>>
    /\ UNCHANGED <<sigchld_action, relayVars, navVars, archVars, viewVars>>

\* one turn of the do-while: the underlying call and the loop test
NativeAttempt ==
    /\ core_op = "native"
    /\ core_pc = "call"
    /\ \E r \in NativeResults :
        /\ native_retries(r) => Interrupts(core_log) < MaxInterrupts
        /\ core_log' = Append(core_log,
                              SysCall(core_frame.fn, "fd", <<>>, r))
        /\ core_frame' = [core_frame EXCEPT !.ret = r.ret, !.errno = r.errno]
        /\ core_pc' = IF native_retries(r) THEN "call" ELSE "return"
    /\ UNCHANGED <<sigchld_action, core_op, core_out, relayVars, navVars, archVars, viewVars>>

\* return ret
NativeReturn ==
    /\ core_op = "native"
    /\ core_pc = "return"
    /\ core_out' = <<[ret |-> core_frame.ret, errno |-> core_frame.errno]>>
    /\ core_pc' = "done"
    /\ UNCHANGED <<sigchld_action, core_op, core_frame, core_log, relayVars, navVars,
                   archVars, viewVars>>

(***************************************************************************)
(* The signal catalog                                                      *)
(***************************************************************************)

\* Exceptions[], lines 49-152, with the signal numbers of Linux on x86
Exceptions ==
    << [value |-> 6,  name |-> "SIGABRT"],  [value |-> 14, name |-> "SIGALRM"],
       [value |-> 26, name |-> "SIGVTALRM"], [value |-> 27, name |-> "SIGPROF"],
       [value |-> 7,  name |-> "SIGBUS"],   [value |-> 17, name |-> "SIGCHLD"],
       [value |-> 18, name |-> "SIGCONT"],  [value |-> 8,  name |-> "SIGFPE"],
       [value |-> 1,  name |-> "SIGHUP"],   [value |-> 4,  name |-> "SIGILL"],
       [value |-> 2,  name |-> "SIGINT"],   [value |-> 9,  name |-> "SIGKILL"],
       [value |-> 13, name |-> "SIGPIPE"],  [value |-> 3,  name |-> "SIGQUIT"],
       [value |-> 11, name |-> "SIGSEGV"],  [value |-> 19, name |-> "SIGSTOP"],
       [value |-> 15, name |-> "SIGTERM"],  [value |-> 20, name |-> "SIGTSTP"],
       [value |-> 21, name |-> "SIGTTIN"],  [value |-> 22, name |-> "SIGTTOU"],
       [value |-> 10, name |-> "SIGUSR1"],  [value |-> 12, name |-> "SIGUSR2"],
       [value |-> 29, name |-> "SIGPOLL"],  [value |-> 31, name |-> "SIGSYS"],
       [value |-> 5,  name |-> "SIGTRAP"],  [value |-> 23, name |-> "SIGURG"],
       [value |-> 24, name |-> "SIGXCPU"],  [value |-> 25, name |-> "SIGXFSZ"],
       [value |-> 34, name |-> "SIGRTMIN"], [value |-> 64, name |-> "SIGRTMAX"],
       [value |-> 29, name |-> "SIGIO"],    [value |-> 16, name |-> "SIGSTKFLT"],
       [value |-> 28, name |-> "SIGWINCH"] >>

\* the values and names asked about
ExceptionValues == -1..65

ExceptionNames ==
    {Exceptions[k].name : k \in 1..Len(Exceptions)} \cup {"", "SIGFOO", "sigint"}

\* the first index of the catalog that satisfies Match, 0 when none does
FirstMatch(Match(_)) ==
    IF \E k \in 1..Len(Exceptions) : Match(Exceptions[k])
    THEN CHOOSE k \in 1..Len(Exceptions) :
            /\ Match(Exceptions[k])
            /\ \A j \in 1..(k - 1) : ~Match(Exceptions[j])
    ELSE 0

\* a lookup that answers with the entry after the match
exceptionName_next(value) ==
    LET Match(x) == value = x.value
        k == FirstMatch(Match)
    IN  IF k = 0 THEN "" ELSE Exceptions[(k % Len(Exceptions)) + 1].name

\* DebuggerCoreUNIX::exceptionName, lines 387-394
exceptionName(value) ==
    LET Match(x) == value = x.value
        k == FirstMatch(Match)
    IN  IF k = 0 THEN "" ELSE Exceptions[k].name

\* a lookup that answers 0 for a name it does not know
exceptionValue_zero(name) ==
    LET Match(x) == name = x.name
        k == FirstMatch(Match)
    IN  IF k = 0 THEN 0 ELSE Exceptions[k].value

\* DebuggerCoreUNIX::exceptionValue, lines 400-407
exceptionValue(name) ==
    LET Match(x) == name = x.name
        k == FirstMatch(Match)
    IN  IF k = 0 THEN -1 ELSE Exceptions[k].value

ExceptionName ==
    /\ core_op = "none"
    /\ \E value \in ExceptionValues :
        /\ core_frame' = [value |-> value]
        /\ core_out' = <<exceptionName(value)>>
    /\ core_op' = "exceptionName"
    /\ core_pc' = "done"
    /\ core_log' = <<>>
    /\ UNCHANGED <<sigchld_action, relayVars, navVars, archVars, viewVars>>

ExceptionValue ==
    /\ core_op = "none"
    /\ \E name \in ExceptionNames :
        /\ core_frame' = [name |-> name]
        /\ core_out' = <<exceptionValue(name)>>
    /\ core_op' = "exceptionValue"
    /\ core_pc' = "done"
    /\ core_log' = <<>>
    /\ UNCHANGED <<sigchld_action, relayVars, navVars, archVars, viewVars>>

CoreNext ==
    \/ ExecuteProcessCall
    \/ ExecuteChdir
    \/ ExecuteBuildArgv
    \/ ExecuteExecv
    \/ ExecuteReturn
    \/ ConstructCall
    \/ ConstructPipe
    \/ ConstructFcntl
    \/ ConstructSigaction
    \/ NativeCall
    \/ NativeAttempt
    \/ NativeReturn
    \/ ExceptionName
    \/ ExceptionValue

SpecCore == CoreInit /\ [][CoreNext]_vars

\* C16: execute_process changes directory first and calls execv only if
\* that succeeded, at most once, by direct path, with an argument vector of
\* args.count() + 2 entries: the program path, the arguments in order, a
\* null terminator.
C16_ChdirThenExecOnce ==
    core_op = "execute_process" =>
      /\ Len(core_log) >= 1 => core_log[1].call = "chdir"
      /\ Len(core_log) <= 2
      /\ \A k \in 1..Len(core_log) :
           core_log[k].call = "execv" =>
             /\ k = 2
             /\ core_log[1].ret = 0
             /\ core_log[k].file = toLocal8Bit(core_frame.path)
             /\ Len(core_log[k].argv) = Len(core_frame.args) + 2
             /\ core_log[k].argv[1] = CStr(toLocal8Bit(core_frame.path))
             /\ \A j \in 1..Len(core_frame.args) :
                  core_log[k].argv[j + 1] = CStr(core_frame.args[j])
             /\ core_log[k].argv[Len(core_frame.args) + 2] = NullPtr

\* C17: whenever execute_process returns, the Status is a failure whose
\* message names the step that failed and the OS reason, for a failed
\* directory change as for a failed image replacement.
C17_DescriptiveFailure ==
    (core_op = "execute_process" /\ core_pc = "done") =>
      /\ ~core_out[1].success
      /\ core_out[1].error.step = core_log[Len(core_log)].call
      /\ core_out[1].error.reason = core_log[Len(core_log)].errno

\* C18: if creating the self-pipe or installing the SIGCHLD handler fails
\* during construction, startup ends in a fatal error; the debugger never
\* goes on with an unusable pipe or without the handler.
C18_FatalOnFailure ==
    (core_op = "DebuggerCoreUNIX" /\ core_pc = "constructed") =>
      \A k \in 1..Len(core_log) : core_log[k].ret = 0

InterruptedFailure(r) == r.ret = -1 /\ r.errno = "EINTR"

\* C19: the native wrappers re-issue the call whenever it fails with
\* EINTR and return the first result that is not an EINTR failure; they
\* never return an interrupted failure.
C19_RetryOnEintr ==
    core_op = "native" =>
      /\ \A k \in 1..(Len(core_log) - 1) : InterruptedFailure(core_log[k])
      /\ \A k \in 1..Len(core_log) : core_log[k].call = core_frame.fn
      /\ core_pc = "done" =>
           /\ Len(core_log) >= 1
           /\ ~InterruptedFailure(core_out[1])
           /\ core_out[1].ret = core_log[Len(core_log)].ret
           /\ core_out[1].errno = core_log[Len(core_log)].errno

\* two interruptions, then the result of the third call is returned
C19_Witness ==
    /\ core_op = "native"
    /\ core_pc = "done"
    /\ Len(core_log) = 3
    /\ InterruptedFailure(core_log[1])
    /\ InterruptedFailure(core_log[2])
    /\ core_out[1].ret = 1

InCatalog(v) == \E k \in 1..Len(Exceptions) : Exceptions[k].value = v

\* C20: for every signal number v of the catalog,
\* exceptionValue(exceptionName(v)) = v, also when several entries share
\* the number.
C20_ValueOfName ==
    (core_op = "exceptionName" /\ InCatalog(core_frame.value)) =>
      exceptionValue(core_out[1]) = core_frame.value

\* the number SIGPOLL and SIGIO share
C20_Witness ==
    /\ core_op = "exceptionName"
    /\ core_frame.value = 29
    /\ core_out[1] = "SIGPOLL"
    /\ exceptionValue("SIGIO") = 29

NameInCatalog(n) == \E k \in 1..Len(Exceptions) : Exceptions[k].name = n

\* C21: exceptionValue returns -1 for every name that is not in the
\* catalog and exceptionName returns the empty string for every number
\* that is not in it; a known name or number never gets these answers.
C21_UnknownLookups ==
    /\ core_op = "exceptionValue" =>
         (core_out[1] = -1 <=> ~NameInCatalog(core_frame.name))
    /\ core_op = "exceptionName" =>
         (core_out[1] = "" <=> ~InCatalog(core_frame.value))

\* a name in the wrong case is unknown
C21_Witness ==
    /\ core_op = "exceptionValue"
    /\ core_frame.name = "sigint"
    /\ core_out[1] = -1

(***************************************************************************)
(*                      x86 REGISTER VIEW                                  *)
(***************************************************************************)

MaxViewCalls == 4

\* register snapshots: the empty one and some with values in rax and rip
ViewStates == {EmptyState} \cup [empty : {FALSE}, rax : 1..3, rip : 1..2]

ViewInit ==
    /\ last_state_ = EmptyState
    /\ compared = <<>>
    /\ hidden = FALSE
    /\ view_calls = 0
    /\ RelayIdle /\ NavIdle /\ ArchIdle /\ CoreIdle

\* ArchProcessor::update_register_view, lines 979-1085: what it does to the
\* view and to last_state_; the comparisons are those of lines 996, 1006,
\* 1010 ... against last_state_
update_register_view(state) ==
    IF state.empty
    THEN /\ hidden' = TRUE
         /\ compared' = <<>>
         /\ UNCHANGED last_state_
    ELSE /\ hidden' = FALSE
         /\ compared' = <<[cur |-> state, prev |-> last_state_,
                           red |-> {n \in {"rax", "rip"} :
                                      last_state_.empty
                                      \/ state[n] # last_state_[n]}]>>
         /\ last_state_' = state

UpdateRegisterView ==
    /\ view_calls < MaxViewCalls
    /\ view_calls' = view_calls + 1
    /\ \E state \in ViewStates : update_register_view(state)
    /\ UNCHANGED <<relayVars, navVars, archVars, coreVars>>

\* ArchProcessor::reset, lines 861-867: last_state_.clear() and
\* update_register_view(QString(), State())
Reset ==
    /\ view_calls < MaxViewCalls
    /\ view_calls' = view_calls + 1
    /\ last_state_' = EmptyState
    /\ hidden' = TRUE
    /\ compared' = <<>>
    /\ UNCHANGED <<relayVars, navVars, archVars, coreVars>>

ViewNext ==
    \/ Reset
    \/ UpdateRegisterView

SpecView == ViewInit /\ [][ViewNext]_vars

\* C22: a register snapshot is compared against last_state_ only when both
\* are non-empty, over every sequence of reset and update_register_view
\* calls.
C22_CompareNonEmpty ==
    compared # <<>> =>
      (~compared[1].cur.empty /\ ~compared[1].prev.empty)

\* the start offsets before cur whose instruction, decoded inside the
\* window that ends at cur, is valid and ends exactly at cur
Stage1Candidates(buf, cur) ==
    {offs \in 0..(cur - 1) :
        /\ Instruction(buf, offs, cur).valid
        /\ offs + Instruction(buf, offs, cur).byte_size = cur}

\* C23: strategy 1 returns the largest byte length among the candidate
\* start offsets below curInstOffset whose instruction, decoded inside
\* [offs, curInstOffset), is valid and ends exactly at curInstOffset; it
\* yields nothing exactly when there is no candidate.
C23_Stage1Longest ==
    ldb # <<>> =>
      LET cands == Stage1Candidates(ldb[1].buf, ldb[1].curInstOffset)
      IN  /\ ldb[1].s1 = 0 <=> cands = {}
          /\ cands # {} =>
               /\ ldb[1].curInstOffset - ldb[1].s1 \in cands
               /\ \A offs \in cands :
                     ldb[1].curInstOffset - offs <= ldb[1].s1

\* two candidates, of lengths 1 and 2: the longer one is returned
C23_Witness ==
    /\ ldb # <<>>
    /\ Cardinality(Stage1Candidates(ldb[1].buf, ldb[1].curInstOffset)) >= 2
    /\ ldb[1].s1 = 2

\* the address the j-th backward step of the recorded request started from
StepStart(j) == IF j = 1 THEN bf[1].c ELSE bf[1].steps[j - 1].addr

\* C24: length_disasm_back returns strategy 1's delta when strategy 1
\* matches, otherwise strategy 2's, otherwise strategy 3's (the distance to
\* the nearest lower offset where decoding fails), and 0 only when all
\* three fail; previous_instructions then moves back by one byte.
C24_StagePriority ==
    /\ ldb # <<>> =>
         /\ ldb[1].s1 # 0 => ldb[1].size = ldb[1].s1
         /\ (ldb[1].s1 = 0 /\ ldb[1].s2 # 0) => ldb[1].size = ldb[1].s2
         /\ (ldb[1].s1 = 0 /\ ldb[1].s2 = 0) => ldb[1].size = ldb[1].s3
         /\ ldb[1].size = 0 <=>
              (ldb[1].s1 = 0 /\ ldb[1].s2 = 0 /\ ldb[1].s3 = 0)
         /\ ldb[1].s3 # 0 =>
              /\ ~Instruction(ldb[1].buf, ldb[1].curInstOffset - ldb[1].s3,
                              ldb[1].bufSize).valid
              /\ \A offs \in (ldb[1].curInstOffset - ldb[1].s3 + 1)
                             ..(ldb[1].curInstOffset - 1) :
                     Instruction(ldb[1].buf, offs, ldb[1].bufSize).valid
    /\ bf # <<>> =>
         \A j \in 1..Len(bf[1].steps) :
            (bf[1].steps[j].size = 0 /\ ~bf[1].steps[j].brk)
            => bf[1].steps[j].addr = USub(StepStart(j), 1)

\* strategies 1 and 2 fail and strategy 3 gives the result
C24_Witness ==
    /\ ldb # <<>>
    /\ ldb[1].s1 = 0
    /\ ldb[1].s2 = 0
    /\ ldb[1].s3 # 0
    /\ ldb[1].size = ldb[1].s3

\* C28: length_disasm_back returns a value in 0..c, and previous_instructions
\* with a count of at least 1 returns an address strictly below its start
\* address, without wrapping below 0, for every start including 0.
C28_BackwardNoWrap ==
    /\ ldb # <<>> => ldb[1].size \in 0..ldb[1].curInstOffset
    /\ (bf # <<>> /\ bf[1].k >= 1) => bf[1].back < bf[1].c

\* C29: the ARM overload with the ok out-parameter sets ok to true and
\* returns the value exactly when the Result-returning overload succeeds,
\* and sets ok to false and returns 0 exactly when it fails.
C29_OkMatchesResult ==
    arch_op = "arm_ea_ok" =>
        LET result == arm_get_effective_address(arch_in.insn, arch_in.operand,
                                                arch_in.state, arch_in.cpuMode)
        IN  /\ arch_out.ok <=> result.ok
            /\ result.ok => arch_out.value = result.value
            /\ ~result.ok => arch_out.value = 0

\* C30: for float and double, the value readFloat gives for snan, +snan and
\* -snan is classified SNaN by floatType, the value for qnan, nan and -qnan
\* is classified QNaN, and the value for inf and -inf is classified Infinity;
\* the sign bit is set exactly when the text starts with a minus sign.
C30_ParseAgreesWithClass ==
    arch_op = "readFloat" =>
        LET str == toLowerTrimmed(arch_in.strInput)
            Agrees(class, negative) ==
                /\ arch_out.ok
                /\ floatType(arch_out.value) = class
                /\ SignBit(arch_out.value) = (IF negative THEN 1 ELSE 0)
        IN  /\ str \in {"snan", "+snan"} => Agrees("SNaN", FALSE)
            /\ str = "-snan" => Agrees("SNaN", TRUE)
            /\ str \in {"qnan", "+qnan", "nan"} => Agrees("QNaN", FALSE)
            /\ str = "-qnan" => Agrees("QNaN", TRUE)
            /\ str \in {"inf", "+inf"} => Agrees("Infinity", FALSE)
            /\ str = "-inf" => Agrees("Infinity", TRUE)

\* C27: however many DebuggerCoreUNIX objects are constructed, the saved
\* previous action old_action is never the relay's own sigchld_handler, so
\* the handler never chains to itself.
C27_NeverChainsToItself ==
    old_action.handler # "sigchld_handler"

\* a step in which the handler's write for a SIGCHLD reaches a pipe that is
\* not full
DeliveryStep ==
    /\ hpc = "write"
    /\ hpc' = "chain"
    /\ hargs.sig = "SIGCHLD"
    /\ selfpipe < PipeCapacity

\* a step in which wait_for_sigchld returns false
FalseReturnStep == wpc # "done" /\ wpc' = "done" /\ ret' = <<FALSE>>

C25_ExactBackwardPath ==
    (/\ walk # <<>>
     /\ walk[1].f < walk[1].t
     /\ \A k \in 1..Len(walk[1].decoded) : walk[1].decoded[k].valid)
    => /\ walk[1].f <= walk[1].p
       /\ walk[1].p < walk[1].t
       /\ \A k \in 1..Len(walk[1].decoded) :
             walk[1].decoded[k].at =
                 IF k = 1 THEN walk[1].f
                 ELSE walk[1].decoded[k - 1].at
                      + walk[1].decoded[k - 1].byte_size
       /\ walk[1].p \in {walk[1].f}
                \cup {walk[1].decoded[k].at :
                          k \in 1..Len(walk[1].decoded)}
                \cup {walk[1].decoded[k].at + walk[1].decoded[k].byte_size :
                          k \in 1..Len(walk[1].decoded)}
       /\ walk[1].p + InstructionAt(walk[1].p).byte_size >= walk[1].t

====
